---- MODULE Spec2Model ----
(***************************************************************************)
(* Model of atlas-cloud-services/ai-agents:                                *)
(*   - the MCP agent registry and message router (mcp/orchestration),      *)
(*   - the GMAO webhook, the forwarding task and the GMAO callback         *)
(*     (mcp/api/endpoints.py),                                             *)
(*   - the incident analyzer and its SQLite cache (agents/incident).       *)
(* Each subsystem has its own specification over the shared variables.     *)
(***************************************************************************)
EXTENDS Integers, Sequences, FiniteSets, TLC

VARIABLES
    agents,        \* registry.agents: agent id -> AgentInfo
    nextAgentId,   \* source of uuid4() values of register_agent
    route,         \* the route_message_to_agents call in flight
    regCall,       \* the registry operation made last with what it returned, and
                   \* the ids deregistered so far
    env,           \* which of INCIDENT_AGENT_URL, GMAO_CALLBACK_URL are configured
    nreq,          \* webhook requests handled so far
    webhook,       \* the last webhook request and the response it got
    queue,         \* background tasks added and not yet started
    fwd,           \* the forward_incident_to_agent task that is running
    cache,         \* incident_analysis_cache: the rows of the table
    calls,         \* analyze_incident calls awaiting the LLM service
    ncalls,        \* analyze_incident calls started so far
    llmPosts,      \* POSTs sent to the LLM service so far
    started,       \* the analyze_incident call started last
    last,          \* the analyze_incident call that returned last, with its result
    lastStored,    \* per key, the result most recently written to the cache
    errored,       \* the keys of the analyses that ended with source 'error'
    written,       \* the cache writes that succeeded, in order: key and result
    app_state,     \* LLM service app.state: model, redis_client, cache_hits, cache_misses
    redis,         \* the Redis database of the LLM service: cache key -> cache_value
    gens,          \* the /generate requests received so far, in order of arrival
    summaries,     \* two incidents and, once computed, their cache keys
    scoring,       \* a parsed LLM response and, once derived, its score and insights
    incident_agent \* the incident agent process: its entry point, where its
                   \* startup stands, the register request in flight, its agent_id

routerVars == <<agents, nextAgentId, route, regCall>>
webhookVars == <<env, nreq, webhook, queue, fwd>>
analyzerVars == <<cache, calls, ncalls, llmPosts, started, last, lastStored, errored,
                   written>>
llmVars == <<app_state, redis, gens>>
vars == <<agents, nextAgentId, route, regCall, env, nreq, webhook, queue, fwd,
          cache, calls, ncalls, llmPosts, started, last, lastStored, errored,
          written, app_state, redis, gens, summaries, scoring, incident_agent>>

\* Python None / Optional[x]: None is the empty tuple, a value x is <<x>>.
None == <<>>
Some(x) == <<x>>

(***************************************************************************)
(* Registry (mcp/orchestration/registry.py)                                *)
(***************************************************************************)
MaxAgents == 2
AgentIds == 1..MaxAgents
AgentNames == {"alpha"}
Capabilities == {"incident_analysis", "reporting"}
Statuses == {"active", "inactive"}

AgentInfo(id, name, capabilities) ==
    [id |-> id, name |-> name, capabilities |-> capabilities,
     status |-> "active", last_heartbeat |-> None]

\* AgentRegistry.get_agents_by_capability
get_agents_by_capability(reg, capability) ==
    {id \in DOMAIN reg : capability \in reg[id].capabilities}

\* register_agent storing the record under the id of the agent's name
register_agent_by_name(name, capabilities) ==
    /\ nextAgentId <= MaxAgents
    /\ agents' = [id \in DOMAIN agents \cup {1} |->
                    IF id = 1 THEN AgentInfo(1, name, capabilities) ELSE agents[id]]
    /\ nextAgentId' = nextAgentId + 1
    /\ UNCHANGED <<route, webhookVars, analyzerVars, llmVars, summaries, scoring>>

\* AgentRegistry.register_agent: a fresh uuid4 id, a new record stored under it
register_agent(name, capabilities) ==
    /\ nextAgentId <= MaxAgents
    /\ agents' = [id \in DOMAIN agents \cup {nextAgentId} |->
                    IF id = nextAgentId
                    THEN AgentInfo(nextAgentId, name, capabilities)
                    ELSE agents[id]]
    /\ nextAgentId' = nextAgentId + 1
    /\ UNCHANGED <<route, webhookVars, analyzerVars, llmVars, summaries, scoring>>

\* AgentRegistry.get_agent: self.agents.get(agent_id) changes nothing
get_agent(agent_id) ==
    UNCHANGED <<agents, nextAgentId, route, webhookVars, analyzerVars, llmVars,
                summaries, scoring, incident_agent>>

\* update_agent_status writing the status without looking the id up
update_status_unchecked(reg, agent_id, status) ==
    [id \in DOMAIN reg \cup {agent_id} |->
        IF id = agent_id
        THEN [status |-> status] @@ (IF id \in DOMAIN reg THEN reg[id]
                                     ELSE AgentInfo(agent_id, "", {}))
        ELSE reg[id]]

\* the registry after update_agent_status: only a registered id is written
update_status(reg, agent_id, status) ==
    IF agent_id \in DOMAIN reg THEN [reg EXCEPT ![agent_id].status = status] ELSE reg

\* AgentRegistry.update_agent_status
update_agent_status(agent_id, status) ==
    /\ agents' = update_status(agents, agent_id, status)
    /\ UNCHANGED <<nextAgentId, route, webhookVars, analyzerVars, llmVars, summaries, scoring, incident_agent>>

\* AgentRegistry.deregister_agent
deregister_agent(agent_id) ==
    /\ agents' = [id \in DOMAIN agents \ {agent_id} |-> agents[id]]
    /\ UNCHANGED <<nextAgentId, route, webhookVars, analyzerVars, llmVars, summaries, scoring, incident_agent>>

\* heartbeat that records the time and leaves the status as it is
heartbeat_no_reactivation(info) == [info EXCEPT !.last_heartbeat = Some("time")]

\* agent_heartbeat on a registered agent: last_heartbeat = time.time(), and an
\* agent that is not active is set to active
heartbeat(info) ==
    [info EXCEPT !.last_heartbeat = Some("time"),
                 !.status = IF @ # "active" THEN "active" ELSE @]

\* PUT /agents/{agent_id}/heartbeat
agent_heartbeat(agent_id) ==
    /\ agents' = IF agent_id \in DOMAIN agents
                 THEN [agents EXCEPT ![agent_id] = heartbeat(@)]
                 ELSE agents
    /\ UNCHANGED <<nextAgentId, route, webhookVars, analyzerVars, llmVars, summaries, scoring, incident_agent>>

\* what a registry operation returns to its caller: the new id, the record
\* or None, True or False, the status code of the heartbeat
RegistryResult(op, agent_id) ==
    CASE op = "register_agent" -> nextAgentId
      [] op = "get_agent" ->
            IF agent_id \in DOMAIN agents THEN Some(agents[agent_id]) ELSE None
      [] op \in {"update_agent_status", "deregister_agent"} ->
            agent_id \in DOMAIN agents
      [] op = "agent_heartbeat" ->
            IF agent_id \in DOMAIN agents THEN 204 ELSE 404

\* the caller keeps the operation, its id, the status the agent had before
\* the call and the result
RegCall(op, agent_id) ==
    regCall' = [op |-> op, agent_id |-> agent_id,
                was |-> IF agent_id \in DOMAIN agents
                        THEN agents[agent_id].status ELSE "",
                result |-> RegistryResult(op, agent_id),
                deregistered |->
                    IF op = "deregister_agent"
                    THEN regCall.deregistered \cup (DOMAIN agents \cap {agent_id})
                    ELSE regCall.deregistered]

NoRegCall == [op |-> "", agent_id |-> 0, was |-> "", result |-> 0, deregistered |-> {}]

(***************************************************************************)
(* Router (mcp/orchestration/router.py)                                    *)
(***************************************************************************)
\* What one POST to an agent's /process endpoint can end in.
HttpStatuses == {200, 500}
Bodies == {"d1", "html"}
JsonBodies == {"d1"}
AgentReplies ==
    [kind : {"response"}, status : HttpStatuses, body : Bodies]
    \cup [kind : {"timeout", "network", "exception"}, status : {0}, body : {""}]

\* httpx Response.raise_for_status passes exactly the 2xx answers
Is2xx(status) == status >= 200 /\ status < 300

\* The dict send_message_to_agent returns: 'status' with 'data' (success) or with
\* 'error' and 'details' (failure); an absent key is None here.
Success(data) == [status |-> "success", data |-> Some(data), error |-> None, details |-> None]
Failure(error, details) ==
    [status |-> "error", data |-> None, error |-> Some(error), details |-> Some(details)]

\* How a task of the gather ends: it returns (agent_id, dict) or raises.
Returned(agent_id, data) == [tag |-> "return", agent_id |-> agent_id, data |-> data]
Raised == [tag |-> "raise", agent_id |-> 0, data |-> Failure(<<"raised">>, "exc")]
NoResult == [tag |-> "none", agent_id |-> 0, data |-> Failure(<<"none">>, "")]
NoReply == [kind |-> "none", status |-> 0, body |-> ""]

\* send_message_to_agent with network errors escaping the try block
send_message_to_agent_uncaught(agent, reply) ==
    IF reply.kind = "network" THEN Raised
    ELSE IF reply.kind = "response" /\ Is2xx(reply.status) /\ reply.body \in JsonBodies
    THEN Returned(agent.id, Success(reply.body))
    ELSE Returned(agent.id, Failure(<<"failed", agent.name>>, "exc"))

\* send_message_to_agent: the result of the task for one agent
send_message_to_agent(agent, reply) ==
    IF reply.kind = "timeout"
    THEN Returned(agent.id, Failure(<<"Timeout contacting agent", agent.name>>, "exc"))
    ELSE IF reply.kind = "network"
    THEN Returned(agent.id, Failure(<<"Network error contacting agent", agent.name>>, "exc"))
    ELSE IF reply.kind = "exception"
    THEN Returned(agent.id,
            Failure(<<"Unexpected error processing response from agent", agent.name>>, "exc"))
    ELSE IF ~Is2xx(reply.status)       \* raise_for_status -> HTTPStatusError
    THEN Returned(agent.id,
            Failure(<<"HTTP error from agent", agent.name, reply.status>>, reply.body))
    ELSE IF reply.body \notin JsonBodies   \* response.json() raises inside the try
    THEN Returned(agent.id,
            Failure(<<"Unexpected error processing response from agent", agent.name>>, "exc"))
    ELSE Returned(agent.id, Success(reply.body))

\* route_message_to_agents, lines 86-88, without the status filter
active_agents_unfiltered(reg, capability) == get_agents_by_capability(reg, capability)

\* route_message_to_agents, lines 86-88: matching agents that are active
active_agents(reg, capability) ==
    {id \in get_agents_by_capability(reg, capability) : reg[id].status = "active"}

\* AgentResponseData of POST /message; status_code is never set
AgentResponseData(agent_id, response_body, error) ==
    [agent_id |-> agent_id, status_code |-> None, response_body |-> response_body,
     error |-> error]

\* isinstance(response_data, Exception): the router's dicts have 'status'
\* 'success' or 'error'
IsException(response_data) == response_data.status \notin {"success", "error"}

\* process_message after route_message_to_agents has returned: the MessageResponse
process_message(agent_responses_dict) ==
    [status |-> "processed",
     responses |->
        [agent_id \in DOMAIN agent_responses_dict |->
            LET response_data == agent_responses_dict[agent_id]
            IN IF IsException(response_data)
               THEN AgentResponseData(agent_id, None, response_data.error)
               ELSE AgentResponseData(agent_id, Some(response_data), None)]]

NoMessage == [status |-> "", responses |-> <<>>]
NoPosts == [id \in AgentIds |-> 0]
IdleRoute ==
    [phase |-> "idle", capability |-> "", targets |-> {}, agent |-> <<>>,
     task |-> <<>>, result |-> <<>>, replies |-> <<>>, posts |-> NoPosts,
     responses |-> <<>>, message |-> NoMessage]

\* route_message_to_agents up to asyncio.gather: the tasks are created from the
\* agents found now; with none, {} is returned at once
route_start(capability) ==
    /\ route.phase = "idle"
    /\ LET act == active_agents(agents, capability) IN
       route' = [phase |-> IF act = {} THEN "returned" ELSE "gathering",
                 capability |-> capability,
                 targets |-> act,
                 agent |-> [id \in act |-> agents[id]],
                 task |-> [id \in act |-> "created"],
                 result |-> [id \in act |-> NoResult],
                 replies |-> [id \in act |-> NoReply],
                 posts |-> NoPosts,
                 responses |-> <<>>,
                 message |-> IF act = {} THEN process_message(<<>>) ELSE NoMessage]
    /\ UNCHANGED <<agents, nextAgentId, regCall, webhookVars, analyzerVars, llmVars, summaries, scoring, incident_agent>>

\* one task of the gather issues its client.post
agent_post(id) ==
    /\ route.phase = "gathering"
    /\ id \in route.targets
    /\ route.task[id] = "created"
    /\ route' = [route EXCEPT !.task[id] = "awaiting", !.posts[id] = @ + 1]
    /\ UNCHANGED <<agents, nextAgentId, regCall, webhookVars, analyzerVars, llmVars, summaries, scoring, incident_agent>>

\* agent_reply with a registry that marks the agent of a failed call inactive
agent_reply_marking_failed(id, reply) ==
    /\ route.phase = "gathering"
    /\ id \in route.targets
    /\ route.task[id] = "awaiting"
    /\ route' = [route EXCEPT
                    !.task[id] = "done",
                    !.result[id] = send_message_to_agent(route.agent[id], reply),
                    !.replies[id] = reply]
    /\ agents' = IF send_message_to_agent(route.agent[id], reply).data.status = "error"
                 THEN update_status(agents, id, "inactive")
                 ELSE agents
    /\ UNCHANGED <<nextAgentId, regCall, webhookVars, analyzerVars, llmVars, summaries, scoring, incident_agent>>

\* the POST of one task ends; the task finishes with send_message_to_agent's result
agent_reply(id, reply) ==
    /\ route.phase = "gathering"
    /\ id \in route.targets
    /\ route.task[id] = "awaiting"
    /\ route' = [route EXCEPT
                    !.task[id] = "done",
                    !.result[id] = send_message_to_agent(route.agent[id], reply),
                    !.replies[id] = reply]
    /\ UNCHANGED <<agents, nextAgentId, regCall, webhookVars, analyzerVars, llmVars, summaries, scoring, incident_agent>>

\* route_message_to_agents after the gather, lines 107-128: a result that is an
\* exception adds no entry, a (agent_id, dict) tuple adds responses[agent_id]
route_collect ==
    /\ route.phase = "gathering"
    /\ \A id \in route.targets : route.task[id] = "done"
    /\ LET kept == {id \in route.targets : route.result[id].tag = "return"}
           responses == [aid \in {route.result[id].agent_id : id \in kept} |->
                route.result[CHOOSE id \in kept : route.result[id].agent_id = aid].data]
       IN route' = [route EXCEPT
                        !.phase = "returned",
                        !.responses = responses,
                        !.message = process_message(responses)]
    /\ UNCHANGED <<agents, nextAgentId, regCall, webhookVars, analyzerVars, llmVars, summaries, scoring, incident_agent>>

\* the caller has the result; the next call may start
route_reset ==
    /\ route.phase = "returned"
    /\ route' = IdleRoute
    /\ UNCHANGED <<agents, nextAgentId, regCall, webhookVars, analyzerVars, llmVars, summaries, scoring, incident_agent>>

RouterIdle ==
    /\ agents = <<>>
    /\ nextAgentId = 1
    /\ route = IdleRoute
    /\ regCall = NoRegCall

NextRouter ==
    \/ \E n \in AgentNames, c \in SUBSET Capabilities \ {{}} :
            register_agent(n, c) /\ UNCHANGED <<regCall, incident_agent>>
    \/ \E id \in AgentIds, s \in Statuses :
            update_agent_status(id, s) /\ UNCHANGED regCall
    \/ \E id \in AgentIds : deregister_agent(id) /\ UNCHANGED regCall
    \/ \E c \in Capabilities : route_start(c)
    \/ \E id \in AgentIds : agent_post(id)
    \/ \E id \in AgentIds, r \in AgentReplies : agent_reply(id, r)
    \/ route_collect
    \/ route_reset

(***************************************************************************)
(* GMAO webhook, forwarding task and callback (mcp/api/endpoints.py)       *)
(***************************************************************************)
MaxWebhooks == 2
GMAO_WEBHOOK_API_KEY == "secret"
MAX_FORWARD_ATTEMPTS == 3
RETRY_DELAYS_SECONDS == <<5, 10>>
CALLBACK_MAX_ATTEMPTS == 3
CALLBACK_RETRY_DELAYS_SECONDS == <<5, 10>>

\* The X-GMAO-Token header: absent, empty, the configured key, another value.
Tokens == {None, Some(""), Some(GMAO_WEBHOOK_API_KEY), Some("wrong")}
ExternalIds == {"ext-1", "ext-2"}
\* Request bodies: valid GmaoWebhookPayloads, and one that fails validation.
GmaoPayloads ==
    [valid : {TRUE}, external_incident_id : ExternalIds]
    \cup {[valid |-> FALSE, external_incident_id |-> ""]}

Min(a, b) == IF a < b THEN a ELSE b

\* Python truthiness of an Optional[str]: None and "" are falsy
Falsy(opt) == opt = None \/ opt = Some("")

\* verify_api_key accepting every non-empty token
verify_api_key_any(x_gmao_token) ==
    IF Falsy(x_gmao_token) THEN [code |-> 401, detail |-> "Missing API Key"]
    ELSE [code |-> 200, detail |-> ""]

\* verify_api_key: the HTTPException it raises, or 200 when it returns
verify_api_key(x_gmao_token) ==
    IF Falsy(x_gmao_token) THEN [code |-> 401, detail |-> "Missing API Key"]
    ELSE IF x_gmao_token # Some(GMAO_WEBHOOK_API_KEY)
    THEN [code |-> 403, detail |-> "Invalid API Key"]
    ELSE [code |-> 200, detail |-> ""]

\* map_gmao_to_incident_report with a constant incident id
map_gmao_to_incident_report_const(gmao_payload) ==
    [incident_id |-> "ext-1", description |-> "full_description"]

\* map_gmao_to_incident_report
map_gmao_to_incident_report(gmao_payload) ==
    [incident_id |-> gmao_payload.external_incident_id, description |-> "full_description"]

NoReport == [incident_id |-> "", description |-> ""]
Response(token, payload, code, detail, status, tracking_id) ==
    [token |-> token, payload |-> payload, code |-> code, detail |-> detail,
     status |-> status, tracking_id |-> tracking_id]
NoWebhook == Response(None, [valid |-> FALSE, external_incident_id |-> ""], 0, "", "", 0)

\* POST /v1/webhooks/gmao/incidents: the verify_api_key dependency, the validation
\* of the body, then receive_gmao_incident, which adds the background task
receive_gmao_incident(token, payload) ==
    /\ nreq < MaxWebhooks
    /\ nreq' = nreq + 1
    /\ LET auth == verify_api_key(token)
           tracking_id == nreq + 1          \* f"mcp-wh-{uuid.uuid4()}"
       IN IF auth.code # 200
          THEN /\ webhook' = Response(token, payload, auth.code, auth.detail, "", 0)
               /\ UNCHANGED queue
          ELSE IF ~payload.valid
          THEN /\ webhook' = Response(token, payload, 422, "validation", "", 0)
               /\ UNCHANGED queue
          ELSE /\ queue' = Append(queue,
                     [report |-> map_gmao_to_incident_report(payload),
                      tracking_id |-> tracking_id,
                      original_external_incident_id |-> payload.external_incident_id])
               /\ webhook' = Response(token, payload, 202, "", "success", tracking_id)
    /\ UNCHANGED <<env, fwd, routerVars, analyzerVars, llmVars, summaries, scoring, incident_agent>>

\* What one POST to the incident agent, or to GMAO, can end in.
AgentBodies == {"llm", "cache", "error", "garbage"}
ForwardReplies ==
    [kind : {"response"}, status : {200}, body : AgentBodies]
    \cup [kind : {"response"}, status : {404, 408, 500}, body : {""}]
    \cup [kind : {"request_error", "exception"}, status : {0}, body : {""}]
CallbackReplies ==
    [kind : {"response"}, status : {200, 400, 429, 500}, body : {""}]
    \cup [kind : {"request_error", "exception"}, status : {0}, body : {""}]

\* An AnalysisResult as the MCP holds it
AnalysisResultOf(incident_id, errors, analysis_source) ==
    [incident_id |-> incident_id, errors |-> errors, analysis_source |-> analysis_source]

\* AnalysisResult.model_validate(response.json()) of the agent's answer
AgentAnalysis(body, report) ==
    IF body \in {"llm", "cache"} THEN AnalysisResultOf(report.incident_id, <<>>, body)
    ELSE AnalysisResultOf(report.incident_id,
            <<"Failed to get response from LLM service.">>, "error")

\* GMAOCallbackPayload
GMAOCallbackPayload(external_incident_id, analysis_summary, status, mcp_tracking_id) ==
    [external_incident_id |-> external_incident_id,
     analysis_summary |-> analysis_summary, status |-> status,
     mcp_tracking_id |-> mcp_tracking_id]

\* A text is a sequence of pieces, each the first n characters of the string t.
Piece(t, n) == [t |-> t, n |-> n]
\* the summary passed on without a cut
Unsliced(text, limit) == text

\* text[:limit]
Slice(text, limit) ==
    LET upto[i \in 0..Len(text)] == IF i = 0 THEN 0 ELSE upto[i - 1] + text[i].n
        kept == {i \in DOMAIN text : upto[i - 1] < limit}
    IN [i \in 1..Cardinality(kept) |->
            IF upto[i] <= limit THEN text[i]
            ELSE Piece(text[i].t, limit - upto[i - 1])]

\* the longest error text considered: the text of the exception raised by the
\* validation of the agent's answer has no fixed length
MaxErrorChars == 1200
SUMMARY_LIMIT == 1000

\* an error message of an AnalysisResult as a text
ErrorText(error) ==
    <<Piece(error,
        CASE error = "MCP: Failed to parse agent response" -> MaxErrorChars
          [] error = "MCP: Agent returned non-retryable HTTP error" -> 150
          [] OTHER -> 40)>>

\* '; '.join(errors)
JoinErrors(errors) ==
    LET join[i \in 0..Len(errors)] ==
            IF i = 0 THEN <<>>
            ELSE IF i = 1 THEN ErrorText(errors[1])
            ELSE join[i - 1] \o <<Piece("; ", 2)>> \o ErrorText(errors[i])
    IN join[Len(errors)]

\* transform_to_gmao_format, lines 420-440: the summary of a result that carries
\* root causes (an analysis of the LLM, fresh or cached), and the fixed text of
\* a result that carries neither root causes, insights nor a raw response
analysis_summary_of(analysis_result) ==
    IF analysis_result.analysis_source \in {"llm", "cache"}
    THEN <<Piece("Potential Causes: ", 18), Piece("causes_text", 80)>>
    ELSE <<Piece("Analysis complete. No specific summary points extracted.", 56)>>

\* transform_to_gmao_format
transform_to_gmao_format(analysis_result, original_external_incident_id, mcp_tracking_id) ==
    LET analysis_summary == analysis_summary_of(analysis_result)
    IN IF analysis_result.errors # <<>>
       THEN GMAOCallbackPayload(original_external_incident_id,
                Slice(<<Piece("Errors during analysis: ", 24)>>
                        \o JoinErrors(analysis_result.errors)
                        \o <<Piece(". ", 2)>> \o analysis_summary,
                      SUMMARY_LIMIT),
                "error_in_analysis", mcp_tracking_id)
       ELSE GMAOCallbackPayload(original_external_incident_id, analysis_summary,
                "analyzed", mcp_tracking_id)

\* a retry loop that takes every HTTP error status for a passing one
NonRetryableNever(status) == FALSE

\* lines 337 and 516: the HTTP error statuses that end the retry loop
NonRetryable(status) == status < 500 /\ status \notin {408, 429}

\* the try of the forwarding loop leaving the loop after every failure
ForwardAttemptNoRetry(report, reply) ==
    IF reply.kind = "response" /\ Is2xx(reply.status)
    THEN [break |-> TRUE, result |-> Some(AgentAnalysis("llm", report))]
    ELSE [break |-> TRUE, result |-> None]

\* forward_incident_to_agent, one pass through the try of the retry loop:
\* whether it leaves the loop (break) and the AnalysisResult it has then
ForwardAttempt(report, reply) ==
    IF reply.kind = "response" /\ Is2xx(reply.status)
    THEN [break |-> TRUE,
          result |-> Some(IF reply.body = "garbage"
                          THEN AnalysisResultOf(report.incident_id,
                                  <<"MCP: Failed to parse agent response">>,
                                  "error_parsing_mcp")
                          ELSE AgentAnalysis(reply.body, report))]
    ELSE IF reply.kind = "response" /\ NonRetryable(reply.status)
    THEN [break |-> TRUE,
          result |-> Some(AnalysisResultOf(report.incident_id,
                            <<"MCP: Agent returned non-retryable HTTP error">>,
                            "error_agent_response"))]
    ELSE [break |-> FALSE, result |-> None]

\* the sleep of the forwarding loop, taken after the last attempt as well
ForwardSleepsAlways(attempt) == attempt <= MAX_FORWARD_ATTEMPTS

\* line 354: the forwarding loop sleeps only when another attempt follows
ForwardSleeps(attempt) == attempt < MAX_FORWARD_ATTEMPTS

\* lines 356-357 and 525-526: the delay taken after the given attempt
RetryDelay(attempt, delays) == delays[Min(attempt - 1, Len(delays) - 1) + 1]

IdleFwd ==
    [pc |-> "idle", report |-> NoReport, tracking_id |-> 0,
     original_external_incident_id |-> "",
     attempt |-> 0, log |-> <<>>, sleeps |-> <<>>, result |-> None,
     callsite |-> "", payload |-> None,
     cbAttempt |-> 0, cbLog |-> <<>>, cbSleeps |-> <<>>, cbReturn |-> "pending"]

\* the call send_analysis_to_gmao(payload, tracking_id) up to its first POST:
\* without GMAO_CALLBACK_URL it returns None at once
EnterCallback(f, payload, callsite) ==
    [f EXCEPT !.payload = Some(payload),
              !.callsite = callsite,
              !.pc = IF env.GMAO_CALLBACK_URL THEN "callback" ELSE "done",
              !.cbAttempt = IF env.GMAO_CALLBACK_URL THEN 1 ELSE 0,
              !.cbReturn = IF env.GMAO_CALLBACK_URL THEN "pending" ELSE "None"]

\* the code after the retry loop returning without a callback when no
\* AnalysisResult is at hand
AfterLoopResultOnly(f) ==
    IF f.result # None
    THEN EnterCallback(f,
            transform_to_gmao_format(f.result[1], f.original_external_incident_id,
                                     f.tracking_id),
            "result")
    ELSE [f EXCEPT !.pc = "done"]

\* forward_incident_to_agent after the retry loop, lines 366-401
AfterLoop(f) ==
    IF f.result # None
    THEN EnterCallback(f,
            transform_to_gmao_format(f.result[1], f.original_external_incident_id,
                                     f.tracking_id),
            "result")
    ELSE IF env.INCIDENT_AGENT_URL
    THEN EnterCallback(f,
            GMAOCallbackPayload(f.original_external_incident_id,
                <<Piece("Failed to obtain a valid analysis from the incident agent after multiple attempts.", 82)>>,
                "error_agent_unavailable_or_invalid_response", f.tracking_id),
            "unavailable")
    ELSE [f EXCEPT !.pc = "done"]

\* the background task starts: forward_incident_to_agent up to its first POST
fwd_start ==
    /\ fwd.pc = "idle"
    /\ queue # <<>>
    /\ queue' = Tail(queue)
    /\ LET task == Head(queue)
           f == [IdleFwd EXCEPT
                    !.report = task.report,
                    !.tracking_id = task.tracking_id,
                    !.original_external_incident_id = task.original_external_incident_id]
       IN fwd' = IF ~env.INCIDENT_AGENT_URL
                 THEN EnterCallback(f,
                        GMAOCallbackPayload(task.original_external_incident_id,
                            <<Piece("MCP configuration error: Incident Analysis Agent URL not set.", 61)>>,
                            "error_mcp_config", task.tracking_id),
                        "config")
                 ELSE [f EXCEPT !.pc = "attempt", !.attempt = 1]
    /\ UNCHANGED <<env, nreq, webhook, routerVars, analyzerVars, llmVars, summaries, scoring, incident_agent>>

\* one attempt of the forwarding loop: the POST, its outcome, and either the
\* sleep before the next attempt or the code after the loop
fwd_attempt(reply) ==
    /\ fwd.pc = "attempt"
    /\ LET step == ForwardAttempt(fwd.report, reply)
           f == [fwd EXCEPT !.log = Append(@, reply), !.result = step.result]
           slept == IF ~step.break /\ ForwardSleeps(fwd.attempt)
                    THEN [f EXCEPT !.sleeps =
                            Append(@, RetryDelay(fwd.attempt, RETRY_DELAYS_SECONDS))]
                    ELSE f
       IN fwd' = IF ~step.break /\ fwd.attempt < MAX_FORWARD_ATTEMPTS
                 THEN [slept EXCEPT !.attempt = @ + 1]
                 ELSE AfterLoop(slept)
    /\ UNCHANGED <<env, nreq, webhook, queue, routerVars, analyzerVars, llmVars, summaries, scoring, incident_agent>>

\* send_analysis_to_gmao, one pass through the try of its retry loop
CallbackAttempt(reply) ==
    IF reply.kind = "response" /\ Is2xx(reply.status) THEN "return_true"
    ELSE IF reply.kind = "response" /\ NonRetryable(reply.status) THEN "break"
    ELSE "continue"

\* send_analysis_to_gmao returning True when its attempts are exhausted
ExhaustedTrue == "True"

\* line 531: the value returned after the loop
Exhausted == "False"

\* one attempt of send_analysis_to_gmao; when it returns, so does the task
cb_attempt(reply) ==
    /\ fwd.pc = "callback"
    /\ LET step == CallbackAttempt(reply)
           f == [fwd EXCEPT !.cbLog = Append(@, reply)]
       IN fwd' =
            IF step = "return_true"
            THEN [f EXCEPT !.cbReturn = "True", !.pc = "done"]
            ELSE IF step = "break"
            THEN [f EXCEPT !.cbReturn = Exhausted, !.pc = "done"]
            ELSE IF fwd.cbAttempt < CALLBACK_MAX_ATTEMPTS
            THEN [f EXCEPT
                    !.cbSleeps = Append(@, RetryDelay(fwd.cbAttempt,
                                                      CALLBACK_RETRY_DELAYS_SECONDS)),
                    !.cbAttempt = @ + 1]
            ELSE [f EXCEPT !.cbReturn = Exhausted, !.pc = "done"]
    /\ UNCHANGED <<env, nreq, webhook, queue, routerVars, analyzerVars, llmVars, summaries, scoring, incident_agent>>

\* the task has returned; the next background task may start
fwd_finish ==
    /\ fwd.pc = "done"
    /\ fwd' = IdleFwd
    /\ UNCHANGED <<env, nreq, webhook, queue, routerVars, analyzerVars, llmVars, summaries, scoring, incident_agent>>

WebhookIdle ==
    /\ nreq = 0
    /\ webhook = NoWebhook
    /\ queue = <<>>
    /\ fwd = IdleFwd

(***************************************************************************)
(* Incident analyzer and its cache (agents/incident/analyzer.py)           *)
(***************************************************************************)
MaxCalls == 2

\* A description is a sequence of characters; the space and the tab are the
\* whitespace characters.
Chars == {"A", "a", "b", " ", "\t"}
Whitespace == {" ", "\t"}
Lower(c) == IF c = "A" THEN "a" ELSE c

RECURSIVE Words(_)
\* str.split(): the maximal runs of non-whitespace characters, in order
Words(s) ==
    IF s = <<>> THEN <<>>
    ELSE IF Head(s) \in Whitespace THEN Words(Tail(s))
    ELSE LET rest == Words(Tail(s))
         IN IF Len(s) > 1 /\ s[2] \notin Whitespace
            THEN <<(<<Head(s)>> \o Head(rest))>> \o Tail(rest)
            ELSE <<(<<Head(s)>>)>> \o rest

RECURSIVE Join(_)
\* ' '.join(words)
Join(ws) ==
    IF ws = <<>> THEN <<>>
    ELSE IF Len(ws) = 1 THEN Head(ws)
    ELSE Head(ws) \o <<" ">> \o Join(Tail(ws))

\* the description taken as it is
_get_incident_summary_raw(description) == description

\* _get_incident_summary: the MD5 digest of the normalised description; the
\* digest is taken to be injective, so the normalised text stands for it
_get_incident_summary(description) ==
    Join(Words([i \in DOMAIN description |-> Lower(description[i])]))

IncidentIds == {"INC-1", "INC-2"}
Descriptions == {<<"A", " ", "b">>, <<" ", "a", " ", " ", "b">>, <<"b">>}
IncidentReports == [incident_id : IncidentIds, description : Descriptions]

\* pydantic models: the fields that are Optional (None by default)
RecommendedActionOptional == {"target", "priority", "estimated_time_minutes"}
LLMStructuredResponseOptional ==
    {"incident_category", "estimated_resolution_time_hours", "confidence_explanation"}
ActionableInsightOptional == {"target", "priority", "estimated_time_minutes"}
AnalysisResultOptional ==
    {"llm_raw_response", "parsed_response", "confidence_score", "processing_time_seconds"}

\* Two LLMStructuredResponse values: every field populated, and all defaults.
FullResponse ==
    [potential_root_causes |->
        <<[cause |-> "switch", likelihood |-> "High", explanation |-> "flapping"]>>,
     recommended_actions |->
        <<[action |-> "check logs", type |-> "Investigate", target |-> Some("S12"),
           priority |-> Some(1), estimated_time_minutes |-> Some(30),
           required_skills |-> <<"network">>],
          [action |-> "restart", type |-> "Remediate", target |-> None,
           priority |-> None, estimated_time_minutes |-> None,
           required_skills |-> <<>>]>>,
     incident_category |-> Some("Network"),
     estimated_resolution_time_hours |-> Some(2),
     similar_known_issues |-> <<"INC-12345">>,
     recommended_documentation |-> <<"wiki">>,
     confidence_explanation |-> Some("keywords")]
EmptyResponse ==
    [potential_root_causes |-> <<>>,
     recommended_actions |-> <<>>,
     incident_category |-> None,
     estimated_resolution_time_hours |-> None,
     similar_known_issues |-> <<>>,
     recommended_documentation |-> <<>>,
     confidence_explanation |-> None]

\* The text of an LLM answer: how the JSON is wrapped and what it holds.
\*   wrapper: "fenced" (```json {...} ```), "bare" ({...} in prose), "none" (no braces)
\*   content: an object matching the schema, one that does not, or broken syntax
LLMTexts ==
    {[wrapper |-> "fenced", content |-> "full"],
     [wrapper |-> "bare", content |-> "empty"],
     [wrapper |-> "bare", content |-> "bad_schema"],
     [wrapper |-> "fenced", content |-> "bad_syntax"],
     [wrapper |-> "none", content |-> "prose"],
     [wrapper |-> "none", content |-> "blank"]}
LLMReplies ==
    [kind : {"response"}, status : {200}, text : {Some(t) : t \in LLMTexts} \cup {None}]
    \cup {[kind |-> "response", status |-> 500, text |-> None],
          [kind |-> "request_error", status |-> 0, text |-> None],
          [kind |-> "timeout", status |-> 0, text |-> None]}
NoLLMReply == [kind |-> "none", status |-> 0, text |-> None]

\* _call_llm_service passing a placeholder text on when the call failed
_call_llm_service_lenient(reply) ==
    IF reply.kind = "response" /\ Is2xx(reply.status) /\ reply.text # None
    THEN reply.text
    ELSE Some([wrapper |-> "none", content |-> "prose"])

\* _call_llm_service: the text of a 2xx answer that has one, None otherwise
_call_llm_service(reply) ==
    IF reply.kind = "response" /\ Is2xx(reply.status) THEN reply.text ELSE None

\* _parse_llm_response returning None without recording an error
_parse_llm_response_silent(response) ==
    IF response.wrapper = "none" \/ response.content \in {"bad_syntax", "bad_schema"}
    THEN [data |-> None, errors |-> <<>>]
    ELSE [data |-> Some(IF response.content = "full" THEN FullResponse
                        ELSE EmptyResponse),
          errors |-> <<>>]

\* _parse_llm_response: the validated object and the errors appended
_parse_llm_response(response) ==
    IF response.content = "blank"
    THEN [data |-> None, errors |-> <<"LLM response is empty or invalid.">>]
    ELSE IF response.wrapper = "none" \/ response.content = "bad_syntax"
    THEN [data |-> None, errors |-> <<"Failed to decode JSON from LLM response">>]
    ELSE IF response.content = "bad_schema"
    THEN [data |-> None,
          errors |-> <<"LLM response JSON does not match expected schema">>]
    ELSE [data |-> Some(IF response.content = "full" THEN FullResponse
                        ELSE EmptyResponse),
          errors |-> <<>>]

Max(a, b) == IF a > b THEN a ELSE b
Truthy(opt) == ~Falsy(opt)

\* _calculate_confidence without the floor of 0.1 for a failed parse
_calculate_confidence_zero(parsed_data) == 0

\* cause_details_score: 2 for having causes, 4 for any likelihood, 4 for any
\* explanation
cause_details_score(causes) ==
    IF causes # <<>>
    THEN 2 + (IF (\E i \in DOMAIN causes : causes[i].likelihood # "") THEN 4 ELSE 0)
           + (IF (\E i \in DOMAIN causes : causes[i].explanation # "") THEN 4 ELSE 0)
    ELSE 0

\* action_details_score giving the full 10 points to any list of actions
action_details_score_flat(actions) == IF actions # <<>> THEN 10 ELSE 0

\* action_details_score: 2 for having actions and 2 each for any type, any
\* priority, any estimated time and any skills
action_details_score(actions) ==
    IF actions # <<>>
    THEN 2 + (IF (\E i \in DOMAIN actions : actions[i].type # "") THEN 2 ELSE 0)
           + (IF (\E i \in DOMAIN actions : actions[i].priority # None) THEN 2 ELSE 0)
           + (IF (\E i \in DOMAIN actions : actions[i].estimated_time_minutes # None)
              THEN 2 ELSE 0)
           + (IF (\E i \in DOMAIN actions : actions[i].required_skills # <<>>)
              THEN 2 ELSE 0)
    ELSE 0

\* _calculate_confidence, in hundredths (0.1 is 10, 1.0 is 100)
_calculate_confidence(parsed_data) ==
    IF parsed_data = None THEN 10
    ELSE LET p == parsed_data[1]
             score ==
                (IF p.potential_root_causes # <<>> THEN 20 ELSE 0)
              + (IF p.recommended_actions # <<>> THEN 20 ELSE 0)
              + (IF Truthy(p.incident_category) THEN 10 ELSE 0)
              + (IF p.estimated_resolution_time_hours # None THEN 10 ELSE 0)
              + (IF p.similar_known_issues # <<>> THEN 5 ELSE 0)
              + (IF p.recommended_documentation # <<>> THEN 5 ELSE 0)
              + cause_details_score(p.potential_root_causes)
              + action_details_score(p.recommended_actions)
              + (IF Truthy(p.confidence_explanation) THEN 10 ELSE 0)
         IN Max(0, Min(100, score))

\* the type of an insight taken from keywords of the action text
InsightOfKeyword(action, insight_id) ==
    [insight_id |-> insight_id,
     description |-> action.action,
     type |-> IF action.action = "check logs" THEN "Investigate" ELSE "Remediate",
     target |-> action.target,
     priority |-> action.priority,
     estimated_time_minutes |-> action.estimated_time_minutes,
     required_skills |-> action.required_skills]

\* ActionableInsight(description=action.action, type=action.type, ...); the
\* insight_id is a fresh uuid4
InsightOf(action, insight_id) ==
    [insight_id |-> insight_id,
     description |-> action.action,
     type |-> action.type,
     target |-> action.target,
     priority |-> action.priority,
     estimated_time_minutes |-> action.estimated_time_minutes,
     required_skills |-> action.required_skills]

\* _extract_insights stopping after the first action
_extract_insights_first(parsed_data, call_no) ==
    IF parsed_data = None \/ parsed_data[1].recommended_actions = <<>> THEN <<>>
    ELSE <<InsightOf(parsed_data[1].recommended_actions[1], <<call_no, 1>>)>>

\* _extract_insights: no insight without parsed data or without actions,
\* otherwise one ActionableInsight per recommended action, in order; the uuid4
\* of an insight is here the call and the position
_extract_insights(parsed_data, call_no) ==
    IF parsed_data = None \/ parsed_data[1].recommended_actions = <<>> THEN <<>>
    ELSE [i \in DOMAIN parsed_data[1].recommended_actions |->
            InsightOf(parsed_data[1].recommended_actions[i], <<call_no, i>>)]

\* model_dump(exclude_none=True) of one model: Optional fields that are None are
\* left out, the others are written with their value
Dump(r, optional) ==
    [k \in {f \in DOMAIN r : f \notin optional \/ r[f] # None} |->
        IF k \in optional THEN r[k][1] ELSE r[k]]
DumpAll(seq, optional) == [i \in DOMAIN seq |-> Dump(seq[i], optional)]

\* model validation that ignores the Optional fields of the JSON object
LoadRequired(j, fields, optional) ==
    [k \in fields |-> IF k \in optional THEN None ELSE j[k]]

\* model validation of one JSON object: a field that is absent gets its default
Load(j, fields, optional) ==
    [k \in fields |->
        IF k \in optional
        THEN (IF k \in DOMAIN j THEN Some(j[k]) ELSE None)
        ELSE j[k]]
LoadAll(seq, fields, optional) == [i \in DOMAIN seq |-> Load(seq[i], fields, optional)]

RecommendedActionFields ==
    {"action", "type", "target", "priority", "estimated_time_minutes", "required_skills"}
LLMStructuredResponseFields ==
    {"potential_root_causes", "recommended_actions", "incident_category",
     "estimated_resolution_time_hours", "similar_known_issues",
     "recommended_documentation", "confidence_explanation"}
ActionableInsightFields ==
    {"insight_id", "description", "target", "type", "priority",
     "estimated_time_minutes", "required_skills"}
AnalysisResultFields ==
    {"incident_id", "analysis_timestamp", "llm_raw_response", "parsed_response",
     "confidence_score", "actionable_insights", "errors", "analysis_source",
     "processing_time_seconds"}

\* LLMStructuredResponse to JSON and back
DumpResponse(p) ==
    Dump([p EXCEPT !.recommended_actions = DumpAll(@, RecommendedActionOptional)],
         LLMStructuredResponseOptional)
LoadResponse(j) ==
    LET p == Load(j, LLMStructuredResponseFields, LLMStructuredResponseOptional)
    IN [p EXCEPT !.recommended_actions =
            LoadAll(@, RecommendedActionFields, RecommendedActionOptional)]

\* AnalysisResult.model_dump_json(exclude_none=True)
model_dump_json(result) ==
    Dump([result EXCEPT
            !.parsed_response = IF @ = None THEN None ELSE Some(DumpResponse(@[1])),
            !.actionable_insights = DumpAll(@, ActionableInsightOptional)],
         AnalysisResultOptional)

\* AnalysisResult.model_validate_json
model_validate_json(j) ==
    LET r == Load(j, AnalysisResultFields, AnalysisResultOptional)
    IN [r EXCEPT
            !.parsed_response = IF @ = None THEN None ELSE Some(LoadResponse(@[1])),
            !.actionable_insights =
                LoadAll(@, ActionableInsightFields, ActionableInsightOptional)]

\* AnalysisResult(incident_id=..., analysis_source="pending", errors=[])
PendingResult(incident_id, call_no) ==
    [incident_id |-> incident_id,
     analysis_timestamp |-> call_no,
     llm_raw_response |-> None,
     parsed_response |-> None,
     confidence_score |-> None,
     actionable_insights |-> <<>>,
     errors |-> <<>>,
     analysis_source |-> "pending",
     processing_time_seconds |-> None]

\* a row of incident_analysis_cache (the timestamp column is never read)
CacheRow(incident_summary, analysis_result_json) ==
    [incident_summary |-> incident_summary,
     analysis_result_json |-> analysis_result_json]

\* SELECT ... WHERE incident_summary = ?
SelectRows(db, incident_summary) ==
    {row \in db : row.incident_summary = incident_summary}

\* INSERT without conflict resolution
insert_only(db, incident_summary, analysis_result_json) ==
    db \cup {CacheRow(incident_summary, analysis_result_json)}

\* INSERT OR REPLACE on the table whose primary key is incident_summary: the
\* rows that conflict with the new one are deleted, then it is inserted
insert_or_replace(db, incident_summary, analysis_result_json) ==
    (db \ SelectRows(db, incident_summary))
        \cup {CacheRow(incident_summary, analysis_result_json)}

\* _check_cache: the stored result of the description's key (fetchone takes a
\* row of the selection), None on a miss
_check_cache(db, incident) ==
    LET summary == _get_incident_summary(incident.description)
        rows == SelectRows(db, summary)
    IN IF rows # {}
       THEN Some(model_validate_json((CHOOSE row \in rows : TRUE).analysis_result_json))
       ELSE None

\* the cache check taking no notice of a failure of the database
cache_check_unfailing(db, incident, read_ok) == _check_cache(db, incident)

\* _check_cache as analyze_incident sees it: when the database cannot be
\* opened or queried, or the row found does not validate, the except clauses
\* return None
cache_check(db, incident, read_ok) ==
    IF read_ok THEN _check_cache(db, incident) ELSE None

\* _add_to_cache: INSERT OR REPLACE under the description's key; a result whose
\* source is 'error' is skipped
_add_to_cache(db, incident, result) ==
    IF result.analysis_source = "error" THEN db
    ELSE insert_or_replace(db, _get_incident_summary(incident.description),
                           model_dump_json(result))

\* step 7 storing the result whatever its source
cache_store_always(db, incident, result) ==
    insert_or_replace(db, _get_incident_summary(incident.description),
                      model_dump_json(result))

\* analyze_incident, step 7: the result goes to the cache unless its source is 'error'
cache_store(db, incident, result) ==
    IF result.analysis_source # "error" THEN _add_to_cache(db, incident, result) ELSE db

\* analyze_incident, steps 4 to 6, on the text the LLM service returned
Analysis(pending, llm_raw_response, call_no) ==
    LET parsed == _parse_llm_response(llm_raw_response)
    IN [pending EXCEPT
            !.llm_raw_response = Some(llm_raw_response),
            !.errors = @ \o parsed.errors,
            !.parsed_response = parsed.data,
            !.analysis_source = IF parsed.data # None THEN "llm" ELSE "error",
            !.confidence_score = Some(_calculate_confidence(parsed.data)),
            !.actionable_insights =
                IF parsed.data # None THEN _extract_insights(parsed.data, call_no)
                ELSE @]

\* POST /analyze: the result of analyze_incident is the body of a 200 answer; had
\* analyze_incident raised, the answer is a 200 with an error result built here
analyze_incident_endpoint(report, analysis_result, raised) ==
    [code |-> 200,
     body |-> IF raised
              THEN [PendingResult(report.incident_id, 0) EXCEPT
                        !.analysis_source = "error",
                        !.errors = <<"Unexpected server error in endpoint">>]
              ELSE analysis_result]

Completed(call_no, incident, result, llm_called, llm_reply) ==
    [call_no |-> call_no, incident |-> incident, result |-> result,
     llm_called |-> llm_called, llm_reply |-> llm_reply,
     response |-> analyze_incident_endpoint(incident, result, FALSE)]
NoIncident == [incident_id |-> "", description |-> <<>>]
NoCompleted == Completed(0, NoIncident, PendingResult("", 0), FALSE, NoLLMReply)
Started(call_no, incident, read_ok) ==
    [call_no |-> call_no, incident |-> incident, read_ok |-> read_ok]
NoStarted == Started(0, NoIncident, FALSE)

\* analyze_incident up to the await of the LLM call: the cache check (which finds
\* nothing when the database cannot be read), and on a hit the return
analyze_start(incident, read_ok) ==
    /\ ncalls < MaxCalls
    /\ ncalls' = ncalls + 1
    /\ started' = Started(ncalls + 1, incident, read_ok)
    /\ LET call_no == ncalls + 1
           cached_result == cache_check(cache, incident, read_ok)
       IN IF cached_result # None
          THEN /\ last' = Completed(call_no, incident,
                            [cached_result[1] EXCEPT
                                !.analysis_timestamp = call_no,
                                !.analysis_source = "cache",
                                !.processing_time_seconds = Some("elapsed")],
                            FALSE, NoLLMReply)
               /\ UNCHANGED <<calls, llmPosts>>
          ELSE /\ calls' = calls \cup {[call_no |-> call_no, incident |-> incident]}
               /\ llmPosts' = llmPosts + 1
               /\ UNCHANGED last
    /\ UNCHANGED <<cache, lastStored, errored, written, routerVars, webhookVars, llmVars, summaries, scoring, incident_agent>>

\* analyze_incident from the answer of the LLM service to its return; the cache
\* write does nothing when the database cannot be written
analyze_finish(c, reply, write_ok) ==
    /\ c \in calls
    /\ calls' = calls \ {c}
    /\ LET llm_raw_response == _call_llm_service(reply)
           pending == PendingResult(c.incident.incident_id, c.call_no)
           summary == _get_incident_summary(c.incident.description)
       IN IF llm_raw_response = None
          THEN /\ last' = Completed(c.call_no, c.incident,
                            [pending EXCEPT
                                !.errors = <<"Failed to get response from LLM service.">>,
                                !.analysis_source = "error",
                                !.processing_time_seconds = Some("elapsed")],
                            TRUE, reply)
               /\ errored' = errored \cup {summary}
               /\ UNCHANGED <<cache, lastStored, written>>
          ELSE LET analysis_result == Analysis(pending, llm_raw_response[1], c.call_no)
                   failed == analysis_result.analysis_source = "error"
               IN /\ cache' = IF write_ok
                              THEN cache_store(cache, c.incident, analysis_result)
                              ELSE cache
                  /\ lastStored' =
                        IF ~failed /\ write_ok
                        THEN [k \in DOMAIN lastStored \cup {summary} |->
                                IF k = summary THEN analysis_result ELSE lastStored[k]]
                        ELSE lastStored
                  /\ written' =
                        IF ~failed /\ write_ok
                        THEN Append(written, [incident_summary |-> summary,
                                              result |-> analysis_result])
                        ELSE written
                  /\ errored' = IF failed THEN errored \cup {summary} ELSE errored
                  /\ last' = Completed(c.call_no, c.incident,
                                [analysis_result EXCEPT
                                    !.processing_time_seconds = Some("elapsed")],
                                TRUE, reply)
    /\ UNCHANGED <<ncalls, started, llmPosts, routerVars, webhookVars, llmVars, summaries, scoring, incident_agent>>

AnalyzerIdle ==
    /\ cache = {}
    /\ written = <<>>
    /\ calls = {}
    /\ ncalls = 0
    /\ llmPosts = 0
    /\ started = NoStarted
    /\ last = NoCompleted
    /\ lastStored = <<>>
    /\ errored = {}

(***************************************************************************)
(* LLM service (llm-service/api/main.py, llm-service/api/endpoints.py)     *)
(***************************************************************************)
MaxGenerate == 2

REDIS_LLM_TTL_SECONDS == 86400
CACHE_KEY_PREFIX == "llm_cache:"

\* GenerateRequest; the temperature is in hundredths (0.7 is the default)
GenerateRequests == [prompt : {"p"}, max_length : {64, 2048}, temperature : {70}]

\* what the model samples for a prompt (do_sample=True), or an exception
\* raised by the tokenizer or the model
GeneratedTexts == {"t1", "t2"}
Generations == GeneratedTexts \cup {"exception"}

\* json.dumps(params, sort_keys=True) lists max_length, prompt, temperature
\* in that order; the sha256 digest of that string is taken as injective
_generate_cache_key(request_data) ==
    <<CACHE_KEY_PREFIX,
      <<request_data.max_length, request_data.prompt, request_data.temperature>>>>

CacheKeys == {_generate_cache_key(r) : r \in GenerateRequests}

CacheStatuses == {"disabled", "hit", "miss", "error", "bypass"}

\* response_data: the body of a 200 answer and, dumped as JSON, the cached value
ResponseData(text, cache_status) == [text |-> text, cache_status |-> cache_status]

\* redis.setex(name, time, value): sets the value and its time to live,
\* whatever the key held before
setex_if_absent(db, name, time, value) ==
    IF db[name] = None
    THEN [db EXCEPT ![name] = Some([value |-> value, ttl |-> time])]
    ELSE db

setex(db, name, time, value) ==
    [db EXCEPT ![name] = Some([value |-> value, ttl |-> time])]

\* line 90: the cache is read when there is a client and no force_refresh
ChecksCacheAlways(redis_client, force_refresh) == redis_client

ChecksCache(redis_client, force_refresh) == redis_client /\ ~force_refresh

\* the response stored whenever there is a client
StoresInCacheAfterError(redis_client, cache_status) == redis_client

\* line 147: the response is stored when there is a client and the GET
\* did not fail
StoresInCacheNever(redis_client, cache_status) == FALSE

StoresInCache(redis_client, cache_status) ==
    redis_client /\ cache_status # "error"

\* a /generate request: its arguments, the locals of generate_text, where the
\* handler is suspended (pc) and, once it has returned, its answer;
\* status_code 0 while the request is in flight
NewGeneration(gen_request, force_refresh) ==
    [gen_request   |-> gen_request,
     force_refresh |-> force_refresh,
     cache_key     |-> _generate_cache_key(gen_request),
     pc            |-> "get",
     cache_status  |-> "disabled",
     read          |-> FALSE,
     cached_data   |-> None,
     inferences    |-> 0,
     response_data |-> None,
     stored        |-> "no",
     status_code   |-> 0]

\* lines 120-159 up to the await of setex: the model runs once; an exception
\* is answered 500, otherwise the response is built and either stored first
\* or returned at once
Inference(g, cache_status, generated) ==
    IF generated = "exception"
    THEN [g EXCEPT !.pc = "done",
                   !.cache_status = cache_status,
                   !.inferences = @ + 1,
                   !.status_code = 500]
    ELSE [g EXCEPT !.cache_status = cache_status,
                   !.inferences = @ + 1,
                   !.response_data = Some(ResponseData(generated, cache_status)),
                   !.pc = IF StoresInCache(app_state.redis_client, cache_status)
                          THEN "setex" ELSE "done",
                   !.status_code = IF StoresInCache(app_state.redis_client, cache_status)
                                   THEN 0 ELSE 200]

\* POST /generate arrives: lines 76-92 when the cache is read, otherwise
\* lines 76-150 with the miss counted for a disabled cache or a bypass
generate_text(gen_request, force_refresh, generated) ==
    /\ Len(gens) < MaxGenerate
    /\ LET g == NewGeneration(gen_request, force_refresh)
       IN  IF ~app_state.model
           THEN /\ gens' = Append(gens, [g EXCEPT !.pc = "done", !.status_code = 503])
                /\ UNCHANGED app_state
           ELSE IF ChecksCache(app_state.redis_client, force_refresh)
           THEN /\ gens' = Append(gens, g)
                /\ UNCHANGED app_state
           ELSE /\ app_state' = [app_state EXCEPT !.cache_misses = @ + 1]
                /\ gens' = Append(gens,
                       Inference(g, IF force_refresh THEN "bypass" ELSE "disabled",
                                 generated))
    /\ UNCHANGED <<redis, routerVars, webhookVars, analyzerVars, summaries, scoring, incident_agent>>

\* the GET returns or raises: lines 92-109, then lines 111-150 on a miss or
\* an error
generate_get(i, get_ok, generated) ==
    /\ gens[i].pc = "get"
    /\ gens[i].status_code = 0
    /\ IF ~get_ok
       THEN /\ gens' = [gens EXCEPT ![i] =
                            Inference([@ EXCEPT !.read = TRUE], "error", generated)]
            /\ UNCHANGED app_state
       ELSE IF redis[gens[i].cache_key] # None
       THEN /\ app_state' = [app_state EXCEPT !.cache_hits = @ + 1]
            /\ gens' = [gens EXCEPT ![i] =
                   [@ EXCEPT !.read = TRUE,
                             !.cached_data = redis[gens[i].cache_key],
                             !.cache_status = "hit",
                             !.response_data =
                                 Some(ResponseData(redis[gens[i].cache_key][1].value.text, "hit")),
                             !.pc = "done",
                             !.status_code = 200]]
       ELSE /\ app_state' = [app_state EXCEPT !.cache_misses = @ + 1]
            /\ gens' = [gens EXCEPT ![i] =
                            Inference([@ EXCEPT !.read = TRUE], "miss", generated)]
    /\ UNCHANGED <<redis, routerVars, webhookVars, analyzerVars, summaries, scoring, incident_agent>>

\* the SETEX returns or raises: lines 150-155
generate_setex(i, set_ok) ==
    /\ gens[i].pc = "setex"
    /\ redis' = IF set_ok
                THEN setex(redis, gens[i].cache_key, REDIS_LLM_TTL_SECONDS,
                           gens[i].response_data[1])
                ELSE redis
    /\ gens' = [gens EXCEPT ![i] =
                    [@ EXCEPT !.stored = IF set_ok THEN "ok" ELSE "failed",
                              !.pc = "done",
                              !.status_code = 200]]
    /\ UNCHANGED <<app_state, routerVars, webhookVars, analyzerVars, summaries, scoring, incident_agent>>

\* the time to live of an entry runs out
redis_expire(key) ==
    /\ redis[key] # None
    /\ redis' = [redis EXCEPT ![key] = None]
    /\ UNCHANGED <<app_state, gens, routerVars, webhookVars, analyzerVars, summaries, scoring, incident_agent>>

\* GET /stats
get_stats ==
    [cache_hits |-> app_state.cache_hits, cache_misses |-> app_state.cache_misses]

LLMIdle ==
    /\ app_state = [model |-> TRUE, redis_client |-> TRUE,
                    cache_hits |-> 0, cache_misses |-> 0]
    /\ redis = [k \in CacheKeys |-> None]
    /\ gens = <<>>

(***************************************************************************)
(* Cache keys of incidents (agents/incident/analyzer.py)                   *)
(***************************************************************************)
MaxDescLen == 4

\* every description of at most MaxDescLen characters
AllDescriptions == UNION {[1..n -> Chars] : n \in 0..MaxDescLen}

\* _check_cache and _add_to_cache take the key of an incident from its
\* description
summarise ==
    /\ summaries.keys = <<>>
    /\ summaries' = [summaries EXCEPT !.keys =
            <<_get_incident_summary(summaries.incidents[1].description),
              _get_incident_summary(summaries.incidents[2].description)>>]
    /\ UNCHANGED <<routerVars, webhookVars, analyzerVars, llmVars, scoring, incident_agent>>

SummaryIdle == summaries = [incidents |-> <<NoIncident, NoIncident>>, keys |-> <<>>]

(***************************************************************************)
(* Scoring and insights of a parsed response (agents/incident/analyzer.py) *)
(***************************************************************************)
MaxItems == 2

\* RootCause values: without details, with a likelihood, with both details
RootCauses ==
    {[cause |-> "switch", likelihood |-> "", explanation |-> ""],
     [cause |-> "switch", likelihood |-> "High", explanation |-> ""],
     [cause |-> "switch", likelihood |-> "High", explanation |-> "flapping"]}

\* RecommendedAction values: every field set; the same action text with
\* another type and nothing else; only a priority, a time or a skill set
RecommendedActions ==
    {[action |-> "check logs", type |-> "Investigate", target |-> Some("S12"),
      priority |-> Some(1), estimated_time_minutes |-> Some(30),
      required_skills |-> <<"network">>],
     [action |-> "check logs", type |-> "Remediate", target |-> None,
      priority |-> None, estimated_time_minutes |-> None, required_skills |-> <<>>],
     [action |-> "restart", type |-> "", target |-> None,
      priority |-> Some(1), estimated_time_minutes |-> None, required_skills |-> <<>>],
     [action |-> "restart", type |-> "", target |-> None,
      priority |-> None, estimated_time_minutes |-> Some(0), required_skills |-> <<>>],
     [action |-> "restart", type |-> "", target |-> None,
      priority |-> None, estimated_time_minutes |-> None,
      required_skills |-> <<"network">>]}

\* the sequences of at most MaxItems elements of S
UpTo(S) == UNION {[1..n -> S] : n \in 0..MaxItems}

\* LLMStructuredResponse values, and None for a failed parse
ParsedResponses ==
    {None} \cup
    {Some(p) : p \in
        [potential_root_causes : UpTo(RootCauses),
         recommended_actions : UpTo(RecommendedActions),
         incident_category : {None, Some(""), Some("Network")},
         estimated_resolution_time_hours : {None, Some(0)},
         similar_known_issues : {<<>>, <<"INC-12345">>},
         recommended_documentation : {<<>>, <<"wiki">>},
         confidence_explanation : {None, Some("keywords")}]}

\* analyze_incident, steps 5 and 6: the confidence score, then the insights
calculate_and_extract ==
    /\ ~scoring.done
    /\ scoring' = [scoring EXCEPT
            !.done = TRUE,
            !.confidence_score = Some(_calculate_confidence(scoring.parsed_data)),
            !.actionable_insights = _extract_insights(scoring.parsed_data, 1)]
    /\ UNCHANGED <<routerVars, webhookVars, analyzerVars, llmVars, summaries,
                   incident_agent>>

ScoringIdle ==
    scoring = [parsed_data |-> None, confidence_score |-> None,
               actionable_insights |-> <<>>, done |-> FALSE]

\* the incident agent before its startup, agent_id = None (main.py line 28,
\* api/main.py line 51)
IncidentAgentIdle ==
    incident_agent = [entrypoint |-> "api.main", pc |-> "starting", created |-> None,
                      response |-> None, delivered |-> FALSE, agent_id |-> None]

InitAnalyzer ==
    /\ RouterIdle
    /\ WebhookIdle
    /\ env = [INCIDENT_AGENT_URL |-> TRUE, GMAO_CALLBACK_URL |-> TRUE]
    /\ AnalyzerIdle
    /\ LLMIdle
    /\ SummaryIdle
    /\ ScoringIdle
    /\ IncidentAgentIdle

NextAnalyzer ==
    \/ \E i \in IncidentReports, ok \in BOOLEAN : analyze_start(i, ok)
    \/ \E c \in calls, r \in LLMReplies, ok \in BOOLEAN : analyze_finish(c, r, ok)

SpecAnalyzer == InitAnalyzer /\ [][NextAnalyzer]_vars

InitWebhook ==
    /\ RouterIdle
    /\ WebhookIdle
    /\ AnalyzerIdle
    /\ env \in [INCIDENT_AGENT_URL : BOOLEAN, GMAO_CALLBACK_URL : BOOLEAN]
    /\ LLMIdle
    /\ SummaryIdle
    /\ ScoringIdle
    /\ IncidentAgentIdle

NextWebhook ==
    \/ \E t \in Tokens, p \in GmaoPayloads : receive_gmao_incident(t, p)
    \/ fwd_start
    \/ \E r \in ForwardReplies : fwd_attempt(r)
    \/ \E r \in CallbackReplies : cb_attempt(r)
    \/ fwd_finish

SpecWebhook == InitWebhook /\ [][NextWebhook]_vars

\* Every POST of the task ends: the HTTP clients are created with a timeout
\* (MCP_TO_AGENT_TIMEOUT, CALLBACK_TIMEOUT_SECONDS), an attempt ends in an
\* answer or in an exception, and the sleeps between attempts are finite.
SpecWebhookFair ==
    /\ InitWebhook
    /\ [][NextWebhook]_vars
    /\ WF_vars(\E r \in ForwardReplies : fwd_attempt(r))
    /\ WF_vars(\E r \in CallbackReplies : cb_attempt(r))

InitRouter ==
    /\ RouterIdle
    /\ WebhookIdle
    /\ AnalyzerIdle
    /\ env = [INCIDENT_AGENT_URL |-> TRUE, GMAO_CALLBACK_URL |-> TRUE]
    /\ LLMIdle
    /\ SummaryIdle
    /\ ScoringIdle
    /\ IncidentAgentIdle

SpecRouter == InitRouter /\ [][NextRouter]_vars

(***************************************************************************)
(* Startup registration of the incident agent (agents/incident/main.py,    *)
(* agents/incident/api/main.py) with the MCP (mcp/api/main.py)             *)
(***************************************************************************)
\* the status code the startup code takes for a successful registration:
\* main.py line 59 tests for 200, api/main.py line 60 for 201
success_status(entrypoint) == IF entrypoint = "main" THEN 200 ELSE 201

\* startup up to the await of the POST to /agents/register. A request that
\* reaches the MCP is handled by its register_agent endpoint, which stores
\* the record and answers 201 Created with the new id
startup_event_post(reached) ==
    /\ incident_agent.pc = "starting"
    /\ IF reached
       THEN /\ register_agent("Incident Analysis Agent", {"incident_analysis"})
            /\ incident_agent' = [incident_agent EXCEPT
                    !.pc = "registering",
                    !.created = Some(nextAgentId),
                    !.response = Some([status_code |-> 201, agent_id |-> nextAgentId])]
            /\ UNCHANGED regCall
       ELSE /\ incident_agent' = [incident_agent EXCEPT !.pc = "registering"]
            /\ UNCHANGED <<routerVars, webhookVars, analyzerVars, llmVars, summaries,
                           scoring>>

\* the POST returns the response or raises httpx.RequestError (no connection,
\* or no answer within the timeout); the id is kept when the status code is
\* the one tested for; then the agent serves its endpoints
startup_event_reply(delivered) ==
    /\ incident_agent.pc = "registering"
    /\ incident_agent' = [incident_agent EXCEPT
            !.pc = "running",
            !.delivered = delivered /\ incident_agent.response # None,
            !.agent_id =
                IF /\ delivered
                   /\ incident_agent.response # None
                   /\ incident_agent.response[1].status_code
                        = success_status(incident_agent.entrypoint)
                THEN Some(incident_agent.response[1].agent_id)
                ELSE None]
    /\ UNCHANGED <<routerVars, webhookVars, analyzerVars, llmVars, summaries, scoring>>

\* GET / of the agent (main.py 72-78, api/endpoints.py 16-24)
read_root ==
    [registered |-> incident_agent.agent_id # None,
     agent_id |-> incident_agent.agent_id]

\* The MCP as its HTTP clients see it: the incident agent starting with either
\* entry point, and requests to the register, get, message, heartbeat and
\* webhook endpoints (the webhook with its key and a valid body; the task it
\* schedules works on the webhook variables alone)
InitMcpHttp ==
    /\ RouterIdle
    /\ WebhookIdle
    /\ AnalyzerIdle
    /\ env = [INCIDENT_AGENT_URL |-> TRUE, GMAO_CALLBACK_URL |-> TRUE]
    /\ LLMIdle
    /\ SummaryIdle
    /\ ScoringIdle
    /\ \E entrypoint \in {"main", "api.main"} :
            incident_agent = [entrypoint |-> entrypoint, pc |-> "starting",
                              created |-> None, response |-> None,
                              delivered |-> FALSE, agent_id |-> None]

NextMcpHttp ==
    \/ \E reached \in BOOLEAN : startup_event_post(reached)
    \/ \E delivered \in BOOLEAN : startup_event_reply(delivered)
    \/ \E n \in AgentNames, c \in SUBSET Capabilities \ {{}} :
          register_agent(n, c) /\ UNCHANGED <<regCall, incident_agent>>
    \/ \E id \in AgentIds : get_agent(id) /\ UNCHANGED regCall
    \/ \E id \in AgentIds : agent_heartbeat(id) /\ UNCHANGED regCall
    \/ \E c \in Capabilities : route_start(c)
    \/ \E id \in AgentIds : agent_post(id)
    \/ \E id \in AgentIds, r \in AgentReplies : agent_reply(id, r)
    \/ route_collect
    \/ route_reset
    \/ receive_gmao_incident(Some(GMAO_WEBHOOK_API_KEY),
            [valid |-> TRUE, external_incident_id |-> "ext-1"])

SpecMcpHttp == InitMcpHttp /\ [][NextMcpHttp]_vars

\* the registry alone, every operation called with registered and with
\* unregistered ids, the caller keeping what the operation returned
NextRegistry ==
    \/ \E n \in AgentNames, c \in SUBSET Capabilities \ {{}} :
            /\ register_agent(n, c) /\ RegCall("register_agent", nextAgentId)
            /\ UNCHANGED incident_agent
    \/ \E id \in AgentIds : get_agent(id) /\ RegCall("get_agent", id)
    \/ \E id \in AgentIds, s \in Statuses :
            update_agent_status(id, s) /\ RegCall("update_agent_status", id)
    \/ \E id \in AgentIds : deregister_agent(id) /\ RegCall("deregister_agent", id)
    \/ \E id \in AgentIds : agent_heartbeat(id) /\ RegCall("agent_heartbeat", id)

SpecRegistry == InitRouter /\ [][NextRegistry]_vars

\* lifespan: the Redis client is None when the ping failed, the model is None
\* when loading it failed; both counters start at 0
InitLLM ==
    /\ RouterIdle
    /\ WebhookIdle
    /\ AnalyzerIdle
    /\ env = [INCIDENT_AGENT_URL |-> TRUE, GMAO_CALLBACK_URL |-> TRUE]
    /\ app_state \in [model : BOOLEAN, redis_client : BOOLEAN,
                      cache_hits : {0}, cache_misses : {0}]
    /\ redis = [k \in CacheKeys |-> None]
    /\ gens = <<>>
    /\ SummaryIdle
    /\ ScoringIdle
    /\ IncidentAgentIdle

NextLLM ==
    \/ \E r \in GenerateRequests, f \in BOOLEAN, t \in Generations :
           generate_text(r, f, t)
    \/ \E i \in DOMAIN gens, ok \in BOOLEAN, t \in Generations :
           generate_get(i, ok, t)
    \/ \E i \in DOMAIN gens, ok \in BOOLEAN : generate_setex(i, ok)
    \/ \E k \in CacheKeys : redis_expire(k)

SpecLLM == InitLLM /\ [][NextLLM]_vars

\* two incidents: any description with any id, and one of the descriptions
\* the analyzer is run on
InitSummary ==
    /\ RouterIdle
    /\ WebhookIdle
    /\ AnalyzerIdle
    /\ LLMIdle
    /\ env = [INCIDENT_AGENT_URL |-> TRUE, GMAO_CALLBACK_URL |-> TRUE]
    /\ \E a \in [incident_id : IncidentIds, description : AllDescriptions],
          b \in IncidentReports :
            summaries = [incidents |-> <<a, b>>, keys |-> <<>>]
    /\ ScoringIdle
    /\ IncidentAgentIdle

NextSummary == summarise

SpecSummary == InitSummary /\ [][NextSummary]_vars

InitScoring ==
    /\ RouterIdle
    /\ WebhookIdle
    /\ AnalyzerIdle
    /\ LLMIdle
    /\ SummaryIdle
    /\ env = [INCIDENT_AGENT_URL |-> TRUE, GMAO_CALLBACK_URL |-> TRUE]
    /\ IncidentAgentIdle
    /\ \E p \in ParsedResponses :
            scoring = [parsed_data |-> p, confidence_score |-> None,
                       actionable_insights |-> <<>>, done |-> FALSE]

NextScoring == calculate_and_extract

SpecScoring == InitScoring /\ [][NextScoring]_vars

(***************************************************************************)
(* Properties of the router                                                *)
(***************************************************************************)
\* the agent answered 2xx with a JSON body, which is the data of its entry
C1_Answered2xx(reply) ==
    reply.kind = "response" /\ reply.status \in 200..299 /\ reply.body \in JsonBodies

\* C1: route_message_to_agents never raises and returns exactly one entry per
\* targeted agent: status 'success' with the agent's data when that agent answered
\* 2xx, status 'error' for every other outcome (timeout, HTTP error status, network
\* error, unexpected exception); an entry depends on that agent's outcome alone.
C1_OneEntryPerAgent ==
    /\ \A id \in DOMAIN route.result :
            route.task[id] = "done" => route.result[id].tag = "return"
    /\ route.phase = "returned" =>
        /\ DOMAIN route.responses = route.targets
        /\ \A id \in route.targets :
            IF C1_Answered2xx(route.replies[id])
            THEN /\ route.responses[id].status = "success"
                 /\ route.responses[id].data = <<route.replies[id].body>>
            ELSE /\ route.responses[id].status = "error"
                 /\ route.responses[id].data = <<>>

\* a call returned with two agents, one answered 2xx and the other failed
C1_Witness ==
    /\ route.phase = "returned"
    /\ \E a, b \in route.targets :
        /\ route.responses[a].status = "success"
        /\ route.replies[b].kind \in {"timeout", "network", "exception"}
        /\ route.responses[b].status = "error"

\* the registered agents that are active and list the capability
C2_Qualifying(capability) ==
    {id \in DOMAIN agents :
        agents[id].status = "active" /\ capability \in agents[id].capabilities}

\* C2: one call of route_message_to_agents targets exactly the registered agents
\* that are active and have the capability; each of them gets exactly one POST,
\* failed or not, no other agent gets any, and with no such agent the call
\* returns an empty map without sending anything.
C2_OnePostPerQualifyingAgent ==
    /\ [](/\ \A id \in AgentIds :
                /\ route.posts[id] <= 1
                /\ id \notin route.targets => route.posts[id] = 0
          /\ route.phase = "returned" =>
                /\ \A id \in route.targets : route.posts[id] = 1
                /\ route.targets = {} => route.responses = <<>> /\ route.posts = NoPosts)
    /\ [][route.phase = "idle" /\ route'.phase # "idle" =>
            /\ route'.targets = C2_Qualifying(route'.capability)
            /\ route'.targets = {} <=> route'.phase = "returned"]_vars

\* a call returned after one POST to the active agent, which failed, and none to
\* the inactive agent that has the capability
C2_Witness ==
    /\ route.phase = "returned"
    /\ \E a \in route.targets :
        /\ route.posts[a] = 1
        /\ route.responses[a].status = "error"
    /\ \E b \in DOMAIN agents \ route.targets :
        /\ route.capability \in agents[b].capabilities
        /\ agents[b].status = "inactive"
        /\ route.posts[b] = 0

(***************************************************************************)
(* Properties of the webhook, the forwarding task and the callback         *)
(***************************************************************************)
\* a failed attempt that the forwarding loop retries
C3_Retryable(reply) ==
    \/ reply.kind \in {"request_error", "exception"}
    \/ reply.kind = "response" /\ (reply.status >= 500 \/ reply.status \in {408, 429})

C3_Failures(log) == Cardinality({i \in DOMAIN log : C3_Retryable(log[i])})

C4_AuthGuardsScheduling ==
    [][nreq' # nreq =>
        LET token == webhook'.token IN
        /\ token = <<>> =>
                webhook'.code = 401 /\ webhook'.detail = "Missing API Key"
        /\ token = <<"">> => webhook'.code = 401
        /\ token \notin {<<>>, <<"">>, <<GMAO_WEBHOOK_API_KEY>>} =>
                webhook'.code = 403 /\ webhook'.detail = "Invalid API Key"
        /\ token # <<GMAO_WEBHOOK_API_KEY>> =>
                /\ queue' = queue
                /\ fwd' = fwd
                /\ webhook'.tracking_id = 0
        /\ queue' # queue => token = <<GMAO_WEBHOOK_API_KEY>>]_vars

\* the second request carried a valid body and a wrong token: 403 and no task
C4_Witness ==
    /\ nreq = 2
    /\ webhook.token = <<"wrong">>
    /\ webhook.payload.valid
    /\ webhook.code = 403
    /\ queue = <<>>
    /\ fwd = IdleFwd

\* the tracking ids of the responses and tasks the state still holds
C5_KnownTrackingIds ==
    {webhook.tracking_id, fwd.tracking_id} \cup {queue[i].tracking_id : i \in DOMAIN queue}

\* C5: an authenticated request with a valid payload is answered 202 with status
\* 'success' and a fresh tracking_id and schedules exactly one task, whose
\* IncidentReport.incident_id is the payload's external_incident_id; the task runs
\* only after the response exists, and no step of the task changes the response.
C5_AcceptedAndScheduledOnce ==
    /\ [](/\ fwd.pc # "idle" => fwd.tracking_id \in 1..nreq
          /\ \A i \in DOMAIN queue : queue[i].tracking_id \in 1..nreq)
    /\ [][/\ nreq' = nreq => webhook' = webhook
          /\ nreq' # nreq /\ webhook'.token = <<GMAO_WEBHOOK_API_KEY>>
                /\ webhook'.payload.valid =>
                /\ webhook'.code = 202
                /\ webhook'.status = "success"
                /\ webhook'.tracking_id \notin C5_KnownTrackingIds
                /\ Len(queue') = Len(queue) + 1
                /\ SubSeq(queue', 1, Len(queue)) = queue
                /\ queue'[Len(queue')].tracking_id = webhook'.tracking_id
                /\ queue'[Len(queue')].report.incident_id =
                        webhook'.payload.external_incident_id
                /\ fwd' = fwd]_vars

\* the request for ext-2 was answered 202; its task then ran and failed everywhere
C5_Witness ==
    /\ webhook.code = 202
    /\ webhook.status = "success"
    /\ webhook.payload.external_incident_id = "ext-2"
    /\ fwd.pc = "done"
    /\ fwd.tracking_id = webhook.tracking_id
    /\ fwd.report.incident_id = "ext-2"
    /\ Len(fwd.log) = MAX_FORWARD_ATTEMPTS
    /\ fwd.result = <<>>
    /\ fwd.cbReturn = "False"

C6_Answered2xx(log) ==
    \E i \in DOMAIN log : log[i].kind = "response" /\ log[i].status \in 200..299

\* C6: with the callback URL configured, send_analysis_to_gmao ends after at
\* most CALLBACK_MAX_ATTEMPTS POSTs, sends none after one answered 2xx, and
\* returns True exactly when an attempt was answered 2xx, False otherwise.
C6_CallbackBounded ==
    env.GMAO_CALLBACK_URL /\ fwd.payload # <<>> =>
        /\ Len(fwd.cbLog) <= CALLBACK_MAX_ATTEMPTS
        /\ ~C6_Answered2xx(SubSeq(fwd.cbLog, 1, Len(fwd.cbLog) - 1))
        /\ fwd.pc = "callback" =>
                /\ Len(fwd.cbLog) < CALLBACK_MAX_ATTEMPTS
                /\ fwd.cbReturn = "pending"
                /\ ~C6_Answered2xx(fwd.cbLog)
        /\ fwd.pc = "done" =>
                fwd.cbReturn = IF C6_Answered2xx(fwd.cbLog) THEN "True" ELSE "False"

\* every allowed attempt was made and failed with a retryable failure: False
C6_Witness ==
    /\ env.GMAO_CALLBACK_URL
    /\ fwd.pc = "done"
    /\ Len(fwd.cbLog) = CALLBACK_MAX_ATTEMPTS
    /\ ~C6_Answered2xx(fwd.cbLog)
    /\ fwd.cbReturn = "False"

(***************************************************************************)
(* Properties of the incident analyzer                                     *)
(***************************************************************************)
\* the cache key of the call started by this step
StartedKey == _get_incident_summary(started'.incident.description)

\* C7: once an analysis of a description returned with source 'llm' and was
\* stored, every later call for that description that can read the cache sends
\* nothing to the LLM service and returns source 'cache' with the parsed_response,
\* confidence_score and actionable_insights of the stored result.
C7_CacheHitReturnsStored ==
    [][ncalls' # ncalls /\ started'.read_ok /\ StartedKey \in DOMAIN lastStored =>
        /\ llmPosts' = llmPosts
        /\ calls' = calls
        /\ last'.call_no = started'.call_no
        /\ last'.incident = started'.incident
        /\ ~last'.llm_called
        /\ last'.result.analysis_source = "cache"
        /\ last'.result.parsed_response = lastStored[StartedKey].parsed_response
        /\ last'.result.confidence_score = lastStored[StartedKey].confidence_score
        /\ last'.result.actionable_insights =
                lastStored[StartedKey].actionable_insights]_vars

\* the second call, for the description written differently, was served from the
\* cache with the two insights of the stored analysis and without an LLM call
C7_Witness ==
    /\ last.call_no = 2
    /\ llmPosts = 1
    /\ last.incident.description = <<" ", "a", " ", " ", "b">>
    /\ last.result.analysis_source = "cache"
    /\ last.result.parsed_response = <<FullResponse>>
    /\ Len(last.result.actionable_insights) = 2
    /\ last.result.confidence_score = <<100>>

\* C8: an analysis that ends with source 'error' leaves the cache as it was; no
\* cache entry ever holds a result whose source is 'error'; and a later call for
\* a description whose analyses so far ended in error (none was stored) calls the
\* LLM service again.
C8_ErrorsAreNotCached ==
    /\ [](\A row \in cache : row.analysis_result_json.analysis_source # "error")
    /\ [][/\ last' # last /\ last'.result.analysis_source = "error" => cache' = cache
          /\ ncalls' # ncalls /\ StartedKey \in errored
                /\ StartedKey \notin DOMAIN lastStored =>
                /\ llmPosts' = llmPosts + 1
                /\ \E c \in calls' \ calls :
                        c.call_no = started'.call_no /\ c.incident = started'.incident]_vars

\* the first analysis failed on a malformed answer; the next call for the same
\* description is waiting for the LLM service, the cache still empty
C8_Witness ==
    /\ last.call_no = 1
    /\ last.result.analysis_source = "error"
    /\ last.result.llm_raw_response # <<>>
    /\ cache = {}
    /\ llmPosts = 2
    /\ \E c \in calls :
        /\ c.call_no = 2
        /\ _get_incident_summary(c.incident.description) =
                _get_incident_summary(last.incident.description)

\* C9: the AnalysisResult returned by analyze_incident(incident) carries
\* incident.incident_id, whether it comes from the LLM, the cache or an error.
C9_IncidentIdPreserved ==
    last.call_no > 0 => last.result.incident_id = last.incident.incident_id

\* C10: a returned AnalysisResult has source 'llm', 'cache' or 'error', never
\* 'pending', and its source is 'error' exactly when its errors list is non-empty.
C10_SourceAndErrors ==
    last.call_no > 0 =>
        /\ last.result.analysis_source \in {"llm", "cache", "error"}
        /\ last.result.analysis_source = "error" <=> last.result.errors # <<>>

\* an analysis returned as an error because the LLM answer did not match the schema
C10_Witness ==
    /\ last.call_no > 0
    /\ last.result.analysis_source = "error"
    /\ last.result.llm_raw_response = <<[wrapper |-> "bare", content |-> "bad_schema"]>>
    /\ Len(last.result.errors) = 1
    /\ last.result.confidence_score = <<10>>

\* the call to the LLM service failed: no 2xx answer, or one without a text
C11_LLMFailed(reply) ==
    \/ reply.kind \in {"request_error", "timeout"}
    \/ reply.kind = "response" /\ reply.status \notin 200..299
    \/ reply.kind = "response" /\ reply.text = <<>>

\* C11: when the call to the LLM service fails (network error, timeout, HTTP error
\* status, answer without text), /analyze answers 200 with a result of source
\* 'error' whose errors contain 'Failed to get response from LLM service.' and
\* whose llm_raw_response, parsed_response and confidence_score are null, with no
\* actionable insights.
C11_LLMFailureResult ==
    last.call_no > 0 /\ last.llm_called /\ C11_LLMFailed(last.llm_reply) =>
        /\ last.response.code = 200
        /\ last.response.body = last.result
        /\ last.response.body.incident_id = last.incident.incident_id
        /\ last.response.body.analysis_source = "error"
        /\ \E i \in DOMAIN last.response.body.errors :
                last.response.body.errors[i] = "Failed to get response from LLM service."
        /\ last.response.body.llm_raw_response = <<>>
        /\ last.response.body.parsed_response = <<>>
        /\ last.response.body.confidence_score = <<>>
        /\ last.response.body.actionable_insights = <<>>

\* the LLM service timed out on the second analysis, after a successful first one
C11_Witness ==
    /\ last.call_no = 2
    /\ last.llm_called
    /\ last.llm_reply.kind = "timeout"
    /\ last.response.code = 200
    /\ last.response.body.analysis_source = "error"
    /\ cache # {}

\* no schema-valid JSON object can be obtained from the text
C12_Malformed(text) ==
    text.wrapper = "none" \/ text.content \in {"bad_syntax", "bad_schema"}

\* C12: when the LLM service answers with a text that yields no schema-valid JSON
\* object (no JSON, invalid syntax, schema mismatch), /analyze answers 200 with a
\* result of source 'error', a non-empty errors list, llm_raw_response equal to the
\* text, parsed_response null, confidence_score 0.1 and no actionable insights.
C12_MalformedAnswerResult ==
    last.call_no > 0 /\ last.llm_called /\ ~C11_LLMFailed(last.llm_reply)
        /\ C12_Malformed(last.llm_reply.text[1]) =>
        /\ last.response.code = 200
        /\ last.response.body = last.result
        /\ last.response.body.analysis_source = "error"
        /\ last.response.body.errors # <<>>
        /\ last.response.body.llm_raw_response = last.llm_reply.text
        /\ last.response.body.parsed_response = <<>>
        /\ last.response.body.confidence_score = <<10>>
        /\ last.response.body.actionable_insights = <<>>

\* the fenced block of the answer held broken JSON
C12_Witness ==
    /\ last.call_no > 0
    /\ last.llm_reply.kind = "response"
    /\ last.llm_reply.text = <<[wrapper |-> "fenced", content |-> "bad_syntax"]>>
    /\ last.response.code = 200
    /\ last.response.body.analysis_source = "error"
    /\ last.response.body.confidence_score = <<10>>

\* C13: in the response of POST /message, the entry of an agent whose call failed
\* has response_body null and an error string, and the entry of an agent that
\* answered has error null and a response_body carrying the agent's answer.
C13_MessageEntries ==
    route.phase = "returned" =>
        \A id \in route.targets :
            IF C1_Answered2xx(route.replies[id])
            THEN /\ route.message.responses[id].error = <<>>
                 /\ route.message.responses[id].response_body # <<>>
                 /\ route.message.responses[id].response_body[1].data =
                        <<route.replies[id].body>>
            ELSE /\ route.message.responses[id].response_body = <<>>
                 /\ route.message.responses[id].error # <<>>

\* the POST failed with a request (connection) error or an HTTP 500 answer
C14_Failed(reply) ==
    \/ reply.kind = "request_error"
    \/ reply.kind = "response" /\ reply.status = 500

C15_Read(i) ==
    /\ i \in DOMAIN gens
    /\ gens[i].pc = "get"
    /\ gens'[i].pc # "get"
    /\ gens'[i].cache_status # "error"

\* the SETEX of the miss i succeeds in this step
C15_Written(i) ==
    /\ i \in DOMAIN gens
    /\ gens[i].pc = "setex"
    /\ gens[i].cache_status = "miss"
    /\ gens'[i].pc = "done"
    /\ gens'[i].stored = "ok"

\* C15: a /generate request without force_refresh whose cache read is
\* answered returns the cached value as a 'hit' without inference when the
\* key holds one; otherwise it runs inference exactly once, has cache_status
\* 'miss' and, unless the model raised, goes on to write its response under
\* the key with the configured TTL before it returns 200; every hit returns
\* the text that an identical request stored.
C15_CachedGenerate ==
    /\ [][\A i \in DOMAIN gens' :
            /\ C15_Read(i) =>
                  IF redis[gens[i].cache_key] # None
                  THEN /\ gens'[i].cache_status = "hit"
                       /\ gens'[i].inferences = 0
                       /\ gens'[i].status_code = 200
                       /\ gens'[i].response_data =
                              Some(ResponseData(redis[gens[i].cache_key][1].value.text, "hit"))
                  ELSE /\ gens'[i].cache_status = "miss"
                       /\ gens'[i].inferences = 1
                       /\ gens'[i].status_code # 200
                       /\ gens'[i].status_code # 500 =>
                              /\ gens'[i].pc = "setex"
                              /\ gens'[i].response_data # None
                              /\ gens'[i].response_data[1].cache_status = "miss"
            /\ C15_Written(i) =>
                  /\ gens'[i].status_code = 200
                  /\ gens'[i].inferences = 1
                  /\ gens'[i].response_data = gens[i].response_data
                  /\ redis'[gens[i].cache_key] =
                         Some([value |-> gens[i].response_data[1],
                               ttl |-> REDIS_LLM_TTL_SECONDS])]_vars
    /\ [](\A j \in DOMAIN gens :
              gens[j].cache_status = "hit" =>
                  \E i \in DOMAIN gens :
                      /\ i # j
                      /\ gens[i].gen_request = gens[j].gen_request
                      /\ gens[i].stored = "ok"
                      /\ gens[i].response_data[1].text = gens[j].response_data[1].text)

\* a miss was stored and the identical request after it was a hit with the
\* same text
C15_Witness ==
    /\ Len(gens) = 2
    /\ gens[1].cache_status = "miss" /\ gens[1].stored = "ok"
    /\ gens[1].status_code = 200 /\ gens[1].inferences = 1
    /\ gens[2].gen_request = gens[1].gen_request
    /\ ~gens[2].force_refresh
    /\ gens[2].cache_status = "hit" /\ gens[2].status_code = 200
    /\ gens[2].inferences = 0
    /\ gens[2].response_data[1].text = gens[1].response_data[1].text

\* i and j are different requests for the same key, both without
\* force_refresh, and i has read a miss
C16_Twin(i, j) ==
    /\ i # j
    /\ gens[i].cache_key = gens[j].cache_key
    /\ ~gens[i].force_refresh /\ ~gens[j].force_refresh
    /\ gens[i].cache_status = "miss"

\* C16: identical requests are not coalesced. While a request that read a
\* miss has not written yet, an identical request that reads the still empty
\* key observes a miss too and runs its own inference, and goes on to write
\* unless the model raised; and when both write, the write of the later one
\* replaces the value the earlier one stored.
C16_NotCoalesced ==
    [][\A i \in DOMAIN gens, j \in DOMAIN gens :
          C16_Twin(i, j) =>
              /\ ( /\ gens[i].pc = "setex"
                   /\ gens[j].pc = "get" /\ gens'[j].pc # "get"
                   /\ gens'[j].cache_status # "error"
                   /\ redis[gens[j].cache_key] = None )
                  => /\ gens'[j].cache_status = "miss"
                     /\ gens'[j].inferences = 1
                     /\ gens'[i].pc = "setex"
                     /\ gens'[j].status_code # 500 => gens'[j].pc = "setex"
              /\ ( /\ gens[i].stored = "ok"
                   /\ redis[gens[i].cache_key] # None
                   /\ redis[gens[i].cache_key][1].value = gens[i].response_data[1]
                   /\ gens[j].cache_status = "miss"
                   /\ gens[j].pc = "setex" /\ gens'[j].stored = "ok" )
                  => /\ redis'[gens[j].cache_key] # None
                     /\ redis'[gens[j].cache_key][1].value = gens[j].response_data[1]
                     /\ gens'[j].status_code = 200]_vars

\* two identical requests both missed, both ran inference and both wrote;
\* the key holds the text of the second, which differs from the first's
C16_Witness ==
    /\ Len(gens) = 2
    /\ C16_Twin(1, 2) /\ C16_Twin(2, 1)
    /\ gens[1].inferences = 1 /\ gens[2].inferences = 1
    /\ gens[1].stored = "ok" /\ gens[2].stored = "ok"
    /\ gens[1].response_data[1].text # gens[2].response_data[1].text
    /\ redis[gens[2].cache_key] # None
    /\ redis[gens[2].cache_key][1].value = gens[2].response_data[1]

\* the requests that were not rejected with 503 and are past the cache check
C17_Counted ==
    {i \in DOMAIN gens : gens[i].status_code # 503 /\ gens[i].pc # "get"}

\* C17: every /generate request that was not rejected with 503 has
\* incremented exactly one counter, cache_hits when it was served from the
\* cache and cache_misses otherwise, so /stats reports as hits the number of
\* responses served from the cache and as hits plus misses the number of
\* requests not rejected.
C17_OneCounterPerRequest ==
    /\ get_stats.cache_hits =
           Cardinality({i \in C17_Counted : gens[i].cache_status = "hit"})
    /\ get_stats.cache_hits + get_stats.cache_misses = Cardinality(C17_Counted)

\* the force_refresh requests that were not rejected with 503
C18_Refreshes ==
    {i \in DOMAIN gens : gens[i].force_refresh /\ gens[i].status_code # 503}

\* C18: a request with force_refresh=true that is not rejected never reads
\* the cache, runs inference once and has cache_status 'bypass', which is the
\* cache_status of its 200 answer; unless the model raised it writes its
\* response when there is a Redis client, and a write that succeeds puts the
\* new response under the key whatever the key held; an identical request
\* without force_refresh that then reads that entry returns the regenerated
\* text.
C18_ForceRefresh ==
    /\ [](\A i \in C18_Refreshes :
              /\ ~gens[i].read
              /\ gens[i].cached_data = None
              /\ gens[i].inferences = 1
              /\ gens[i].cache_status = "bypass"
              /\ gens[i].status_code = 200 =>
                     gens[i].response_data[1].cache_status = "bypass"
              /\ (app_state.redis_client /\ gens[i].status_code # 500) =>
                     (gens[i].pc = "setex" \/ gens[i].stored # "no"))
    /\ [][\A i \in C18_Refreshes :
            /\ (gens[i].pc = "setex" /\ gens'[i].stored = "ok") =>
                  /\ gens'[i].status_code = 200
                  /\ redis'[gens[i].cache_key] =
                         Some([value |-> gens[i].response_data[1],
                               ttl |-> REDIS_LLM_TTL_SECONDS])
            /\ \A j \in DOMAIN gens :
                  ( /\ gens[j].pc = "get" /\ gens'[j].pc # "get"
                    /\ gens'[j].cache_status # "error"
                    /\ gens[j].gen_request = gens[i].gen_request
                    /\ gens[i].stored = "ok"
                    /\ redis[gens[i].cache_key] =
                           Some([value |-> gens[i].response_data[1],
                                 ttl |-> REDIS_LLM_TTL_SECONDS]) )
                  => /\ gens'[j].status_code = 200
                     /\ gens'[j].inferences = 0
                     /\ gens'[j].response_data[1].text =
                            gens[i].response_data[1].text]_vars

\* a stored miss was followed by an identical request with force_refresh,
\* which did not read, regenerated a different text and overwrote the entry
C18_Witness ==
    /\ Len(gens) = 2
    /\ gens[1].cache_status = "miss" /\ gens[1].stored = "ok"
    /\ gens[2].gen_request = gens[1].gen_request
    /\ gens[2].force_refresh /\ ~gens[2].read
    /\ gens[2].cache_status = "bypass" /\ gens[2].status_code = 200
    /\ gens[2].stored = "ok"
    /\ gens[2].response_data[1].text # gens[1].response_data[1].text
    /\ redis[gens[2].cache_key] # None
    /\ redis[gens[2].cache_key][1].value = gens[2].response_data[1]

(***************************************************************************)
(* Properties of the incident cache                                        *)
(***************************************************************************)
\* C19: the incident cache never holds two rows with the same description
\* key; a write that succeeds leaves exactly its own row under its key and
\* every other row as it was, so _check_cache returns the result written
\* last for a description; and no step removes the row of a key.
C19_OneEntryPerKey ==
    /\ [](\A r1 \in cache, r2 \in cache :
              r1.incident_summary = r2.incident_summary => r1 = r2)
    /\ [](\A i \in IncidentReports :
              _get_incident_summary(i.description) \in DOMAIN lastStored =>
                  _check_cache(cache, i) =
                      Some(lastStored[_get_incident_summary(i.description)]))
    /\ [][ /\ written' # written =>
                LET w == written'[Len(written')]
                IN /\ SelectRows(cache', w.incident_summary) =
                          {CacheRow(w.incident_summary, model_dump_json(w.result))}
                   /\ cache' \ SelectRows(cache', w.incident_summary) =
                          cache \ SelectRows(cache, w.incident_summary)
            /\ \A row \in cache :
                  SelectRows(cache', row.incident_summary) # {} ]_vars

\* two analyses of one description were written one after the other with
\* different results; the cache holds one row, that of the second
C19_Witness ==
    /\ Len(written) = 2
    /\ written[1].incident_summary = written[2].incident_summary
    /\ written[1].result.parsed_response # written[2].result.parsed_response
    /\ cache = {CacheRow(written[2].incident_summary,
                         model_dump_json(written[2].result))}

RECURSIVE C20_Collapsed(_, _)
\* s from position i on, in lower case, with every run of whitespace turned
\* into one space
C20_Collapsed(s, i) ==
    IF i > Len(s) THEN <<>>
    ELSE IF s[i] \in Whitespace
    THEN IF i > 1 /\ s[i - 1] \in Whitespace
         THEN C20_Collapsed(s, i + 1)
         ELSE <<" ">> \o C20_Collapsed(s, i + 1)
    ELSE <<Lower(s[i])>> \o C20_Collapsed(s, i + 1)

\* s without its leading and its trailing space
C20_Stripped(s) ==
    LET t == IF s # <<>> /\ Head(s) = " " THEN Tail(s) ELSE s
    IN IF t # <<>> /\ t[Len(t)] = " " THEN SubSeq(t, 1, Len(t) - 1) ELSE t

\* C20: two incidents have the same cache key exactly when their descriptions
\* are equal after lower-casing, collapsing every run of whitespace to one
\* space and removing leading and trailing whitespace, whatever their
\* incident ids (the digest taken as injective).
C20_KeyIsNormalisedDescription ==
    summaries.keys # <<>> =>
        (summaries.keys[1] = summaries.keys[2]
            <=> C20_Stripped(C20_Collapsed(summaries.incidents[1].description, 1)) =
                C20_Stripped(C20_Collapsed(summaries.incidents[2].description, 1)))

\* two incidents with different ids and differently written descriptions,
\* one with a tab between the words, have the same key
C20_Witness ==
    /\ summaries.keys # <<>>
    /\ summaries.keys[1] = summaries.keys[2]
    /\ summaries.incidents[1].incident_id # summaries.incidents[2].incident_id
    /\ summaries.incidents[1].description = <<"a", "\t", " ", "b">>
    /\ summaries.incidents[2].description = <<"A", " ", "b">>

(***************************************************************************)
(* Properties of the scoring and of the insights                           *)
(***************************************************************************)
\* the elements of a list
C21_Range(seq) == {seq[i] : i \in DOMAIN seq}

\* the points of a parsed response, by the table of the score
C21_Points(p) ==
    LET causes == p.potential_root_causes
        actions == p.recommended_actions
        Pts(cond, n) == IF cond THEN n ELSE 0
    IN  Pts(Len(causes) > 0, 20)
      + Pts(Len(actions) > 0, 20)
      + Pts(p.incident_category \notin {None, Some("")}, 10)
      + Pts(p.estimated_resolution_time_hours # None, 10)
      + Pts(Len(p.similar_known_issues) > 0, 5)
      + Pts(Len(p.recommended_documentation) > 0, 5)
      + Pts(p.confidence_explanation \notin {None, Some("")}, 10)
      + Pts(Len(causes) > 0,
            2 + Pts({c \in C21_Range(causes) : c.likelihood # ""} # {}, 4)
              + Pts({c \in C21_Range(causes) : c.explanation # ""} # {}, 4))
      + Pts(Len(actions) > 0,
            2 + Pts({a \in C21_Range(actions) : a.type # ""} # {}, 2)
              + Pts({a \in C21_Range(actions) : a.priority # None} # {}, 2)
              + Pts({a \in C21_Range(actions) : a.estimated_time_minutes # None} # {}, 2)
              + Pts({a \in C21_Range(actions) : a.required_skills # <<>>} # {}, 2))

\* every field that the score counts is populated
C21_AllPopulated(p) ==
    /\ p.incident_category \notin {None, Some("")}
    /\ p.estimated_resolution_time_hours # None
    /\ p.similar_known_issues # <<>>
    /\ p.recommended_documentation # <<>>
    /\ p.confidence_explanation \notin {None, Some("")}
    /\ \E c \in C21_Range(p.potential_root_causes) : c.likelihood # ""
    /\ \E c \in C21_Range(p.potential_root_causes) : c.explanation # ""
    /\ \E a \in C21_Range(p.recommended_actions) : a.type # ""
    /\ \E a \in C21_Range(p.recommended_actions) : a.priority # None
    /\ \E a \in C21_Range(p.recommended_actions) : a.estimated_time_minutes # None
    /\ \E a \in C21_Range(p.recommended_actions) : a.required_skills # <<>>

\* C21: for a parsed response the confidence score is points / 100, where
\* the points are 20 for root causes, 20 for actions, 10 for a category, 10
\* for a resolution time, 5 for similar issues, 5 for documentation, 10 for
\* a confidence explanation, 2 + 4 + 4 for the details of the causes and
\* 2 + 2 + 2 + 2 + 2 for the details of the actions; it lies between 0.0 and
\* 1.0 and is 1.0 exactly when every counted field is populated.
C21_ConfidenceIsPoints ==
    scoring.done /\ scoring.parsed_data # None =>
        /\ scoring.confidence_score = Some(C21_Points(scoring.parsed_data[1]))
        /\ scoring.confidence_score[1] \in 0..100
        /\ scoring.confidence_score[1] = 100
                <=> C21_AllPopulated(scoring.parsed_data[1])

\* causes with a likelihood but no explanation, a category and one action
\* with a priority only: 20 + 20 + 10 + (2 + 4) + (2 + 2) = 60 points
C21_Witness ==
    /\ scoring.done
    /\ scoring.parsed_data # None
    /\ scoring.confidence_score = Some(60)
    /\ scoring.parsed_data[1].incident_category = Some("Network")
    /\ Len(scoring.parsed_data[1].potential_root_causes) = 1
    /\ Len(scoring.parsed_data[1].recommended_actions) = 1
    /\ scoring.parsed_data[1].recommended_actions[1].priority # None

\* C22: _extract_insights returns one insight per recommended action, in
\* the order of the actions, each with the description, type, target,
\* priority, estimated_time_minutes and required_skills of its action; it
\* returns an empty list when the parsed data is missing or has no action.
C22_OneInsightPerAction ==
    scoring.done =>
        IF scoring.parsed_data = None
        THEN scoring.actionable_insights = <<>>
        ELSE LET actions == scoring.parsed_data[1].recommended_actions
                 insights == scoring.actionable_insights
             IN /\ Len(insights) = Len(actions)
                /\ \A i \in DOMAIN actions :
                      /\ insights[i].description = actions[i].action
                      /\ insights[i].type = actions[i].type
                      /\ insights[i].target = actions[i].target
                      /\ insights[i].priority = actions[i].priority
                      /\ insights[i].estimated_time_minutes =
                             actions[i].estimated_time_minutes
                      /\ insights[i].required_skills = actions[i].required_skills
                /\ \A i \in DOMAIN insights, j \in DOMAIN insights :
                      i # j => insights[i].insight_id # insights[j].insight_id

\* two different actions gave two insights in the order of the actions
C22_Witness ==
    /\ scoring.done
    /\ scoring.parsed_data # None
    /\ Len(scoring.actionable_insights) = 2
    /\ scoring.actionable_insights[1].description = "restart"
    /\ scoring.actionable_insights[1].priority = Some(1)
    /\ scoring.actionable_insights[2].description = "check logs"
    /\ scoring.actionable_insights[2].target = Some("S12")

\* the insights made from actions with the same action text
C23_SameText(i, j) ==
    /\ i \in DOMAIN scoring.actionable_insights
    /\ j \in DOMAIN scoring.actionable_insights
    /\ scoring.parsed_data[1].recommended_actions[i].action =
           scoring.parsed_data[1].recommended_actions[j].action

\* C23 as stated: two actions with the same action text yield insights of
\* the same type.
C23_TypeFromActionText ==
    scoring.done /\ scoring.parsed_data # None =>
        \A i \in DOMAIN scoring.actionable_insights,
           j \in DOMAIN scoring.actionable_insights :
            C23_SameText(i, j) =>
                scoring.actionable_insights[i].type = scoring.actionable_insights[j].type

\* C23: the type of each derived insight is the type field of its
\* recommended action, whatever the action text; two actions with the same
\* type yield insights of the same type.
C23_TypeFromActionType ==
    scoring.done /\ scoring.parsed_data # None =>
        \A i \in DOMAIN scoring.actionable_insights,
           j \in DOMAIN scoring.actionable_insights :
            /\ scoring.actionable_insights[i].type =
                   scoring.parsed_data[1].recommended_actions[i].type
            /\ scoring.parsed_data[1].recommended_actions[i].type =
                   scoring.parsed_data[1].recommended_actions[j].type
               => scoring.actionable_insights[i].type = scoring.actionable_insights[j].type

\* two actions with the text 'check logs' and the types Investigate and
\* Remediate gave insights of these two types
C23_Witness ==
    /\ scoring.done
    /\ scoring.parsed_data # None
    /\ Len(scoring.actionable_insights) = 2
    /\ C23_SameText(1, 2)
    /\ scoring.actionable_insights[1].type = "Investigate"
    /\ scoring.actionable_insights[2].type = "Remediate"
\* a step of register_agent: only it hands out an id
C24_Registers == nextAgentId' # nextAgentId

C24_Added ==
    LET id == regCall'.result IN
    /\ regCall'.op = "register_agent"
    /\ id \notin DOMAIN agents
    /\ DOMAIN agents' = DOMAIN agents \cup {id}
    /\ agents'[id].id = id
    /\ agents'[id].status = "active"
    /\ agents'[id].last_heartbeat = None
    /\ \A other \in DOMAIN agents : agents'[other] = agents[other]

\* C24: every call of register_agent, also one repeating the arguments of an
\* earlier call, adds exactly one record under an id the registry did not
\* hold, active and without heartbeat, readable under the returned id, and
\* changes no other record; as long as nothing was deregistered the registry
\* holds as many records as there were registrations
C24_RegisterAddsOneFreshRecord ==
    /\ [][C24_Registers => C24_Added]_vars
    /\ [](regCall.deregistered = {} => Cardinality(DOMAIN agents) = nextAgentId - 1)

\* two registrations with the same name and capabilities, both in the registry
C24_Witness ==
    /\ regCall.op = "register_agent"
    /\ regCall.deregistered = {}
    /\ \E a, b \in DOMAIN agents :
        /\ a # b
        /\ agents[a].name = agents[b].name
        /\ agents[a].capabilities = agents[b].capabilities

\* a call of get_agent, update_agent_status or deregister_agent with an id
\* the registry does not hold
C25_UnknownIdCall ==
    /\ regCall'.op \in {"get_agent", "update_agent_status", "deregister_agent"}
    /\ regCall'.agent_id \notin DOMAIN agents

C25_NothingHappens ==
    /\ agents' = agents
    /\ regCall'.op = "get_agent" => regCall'.result = None
    /\ regCall'.op # "get_agent" => regCall'.result = FALSE

C25_Gone ==
    \A id \in regCall.deregistered :
        /\ RegistryResult("get_agent", id) = None
        /\ \A c \in Capabilities :
            /\ id \notin get_agents_by_capability(agents, c)
            /\ id \notin active_agents(agents, c)

\* C25: get_agent, update_agent_status and deregister_agent called with an
\* id that is not registered change nothing and fail with nothing (get_agent
\* returns None, the other two False); an agent that was deregistered is
\* not returned by get_agent or get_agents_by_capability any more, so no
\* message is routed to it
C25_UnknownIdsAndDeregistered ==
    /\ [][C25_UnknownIdCall => C25_NothingHappens]_vars
    /\ []C25_Gone

\* update_agent_status was just refused for an id that had been deregistered,
\* while another agent is still registered
C25_Witness ==
    /\ regCall.op = "update_agent_status"
    /\ regCall.result = FALSE
    /\ regCall.agent_id \in regCall.deregistered
    /\ DOMAIN agents # {}

C26_Heartbeat == regCall'.op = "agent_heartbeat"

C26_Registered ==
    LET id == regCall'.agent_id IN
    /\ regCall'.result = 204
    /\ DOMAIN agents' = DOMAIN agents
    /\ agents'[id].last_heartbeat # None
    /\ agents'[id].status = "active"
    /\ agents'[id].id = agents[id].id
    /\ agents'[id].name = agents[id].name
    /\ agents'[id].capabilities = agents[id].capabilities
    /\ \A other \in DOMAIN agents \ {id} : agents'[other] = agents[other]
    /\ \A c \in agents[id].capabilities : id \in active_agents(agents', c)

C26_Unknown ==
    /\ regCall'.result = 404
    /\ agents' = agents

\* C26: a heartbeat for a registered id records the time and leaves the
\* agent active, so that an inactive agent is routed to again, and changes no
\* other field and no other agent; a heartbeat for an unknown id is answered
\* 404 and changes nothing
C26_HeartbeatReactivates ==
    [][C26_Heartbeat =>
        IF regCall'.agent_id \in DOMAIN agents THEN C26_Registered ELSE C26_Unknown]_vars

\* the heartbeat of an agent that was inactive has just been answered 204
C26_Witness ==
    /\ regCall.op = "agent_heartbeat"
    /\ regCall.result = 204
    /\ regCall.was = "inactive"
    /\ Cardinality(DOMAIN agents) > 1

\* analyze_incident starts and its cache check fails
C27_ReadFails == ncalls' # ncalls /\ ~started'.read_ok

\* what analyze_incident does on a miss: no result yet, the LLM service is called
C27_AsOnMiss ==
    /\ calls' = calls \cup {[call_no |-> ncalls', incident |-> started'.incident]}
    /\ llmPosts' = llmPosts + 1
    /\ last' = last

\* analyze_incident returns after the LLM service answered with a text that parses
C27_ParsedReturn ==
    /\ calls' # calls
    /\ calls' \subseteq calls
    /\ _call_llm_service(last'.llm_reply) # None
    /\ _parse_llm_response(_call_llm_service(last'.llm_reply)[1]).data # None

C27_LlmResult ==
    /\ last'.result.analysis_source = "llm"
    /\ last'.result.errors = <<>>
    /\ last'.response.code = 200

\* C27: a failure of the cache never fails an analysis: when the cache cannot
\* be read the analysis goes on as after a miss, and whether the cache write
\* succeeds or not, an answer of the LLM service that parses is returned
\* with source 'llm' and no errors
C27_CacheFailureIsNotFatal ==
    /\ [][C27_ReadFails => C27_AsOnMiss]_vars
    /\ [][C27_ParsedReturn => C27_LlmResult]_vars

\* the call that returned last could not read the cache although a row was
\* stored under its key, and could not replace that row with its own result,
\* and returned the 'llm' result without errors
C27_Witness ==
    /\ last.call_no = started.call_no
    /\ ~started.read_ok
    /\ last.llm_called
    /\ last.result.analysis_source = "llm"
    /\ last.result.errors = <<>>
    /\ \E row \in SelectRows(cache, _get_incident_summary(last.incident.description)) :
            model_validate_json(row.analysis_result_json).analysis_timestamp # last.call_no

\* an HTTP answer with an error status below 500 other than 408 and 429
C28_Refusal(reply) ==
    /\ reply.kind = "response"
    /\ ~Is2xx(reply.status)
    /\ reply.status < 500
    /\ reply.status \notin {408, 429}

\* the incident agent has just answered a forwarding attempt with such a status
C28_AgentRefuses ==
    /\ fwd.pc = "attempt"
    /\ Len(fwd'.log) = Len(fwd.log) + 1
    /\ C28_Refusal(fwd'.log[Len(fwd'.log)])

C28_ForwardEnds ==
    /\ fwd'.pc # "attempt"
    /\ fwd'.attempt = fwd.attempt
    /\ fwd'.sleeps = fwd.sleeps
    /\ fwd'.result # None
    /\ fwd'.result[1].analysis_source = "error_agent_response"
    /\ fwd'.result[1].errors # <<>>
    /\ fwd'.callsite = "result"
    /\ fwd'.payload =
            Some(transform_to_gmao_format(fwd'.result[1],
                    fwd.original_external_incident_id, fwd.tracking_id))
    /\ env.GMAO_CALLBACK_URL => fwd'.pc = "callback"

\* GMAO has just answered a callback attempt with such a status
C28_GmaoRefuses ==
    /\ fwd.pc = "callback"
    /\ Len(fwd'.cbLog) = Len(fwd.cbLog) + 1
    /\ C28_Refusal(fwd'.cbLog[Len(fwd'.cbLog)])

C28_CallbackEnds ==
    /\ fwd'.pc = "done"
    /\ fwd'.cbReturn = "False"
    /\ fwd'.cbAttempt = fwd.cbAttempt
    /\ fwd'.cbSleeps = fwd.cbSleeps

C29_IdsHandedOn ==
    /\ (nreq' # nreq /\ webhook'.code = 202) =>
            LET task == queue'[Len(queue')] IN
            /\ Len(queue') = Len(queue) + 1
            /\ task.tracking_id = webhook'.tracking_id
            /\ task.original_external_incident_id = webhook'.payload.external_incident_id
    /\ (fwd.pc = "idle" /\ fwd'.pc # "idle") =>
            /\ fwd'.tracking_id = queue[1].tracking_id
            /\ fwd'.original_external_incident_id = queue[1].original_external_incident_id
    /\ (fwd.pc # "idle" /\ fwd'.pc # "idle") =>
            /\ fwd'.tracking_id = fwd.tracking_id
            /\ fwd'.original_external_incident_id = fwd.original_external_incident_id

\* once send_analysis_to_gmao was called the task does not call it again
C29_NoSecondSequence ==
    (fwd.payload # None /\ fwd'.pc # "idle") =>
        /\ fwd'.payload = fwd.payload
        /\ fwd'.callsite = fwd.callsite
        /\ fwd'.pc \in {"callback", "done"}
        /\ fwd'.cbAttempt >= fwd.cbAttempt
        /\ fwd'.log = fwd.log

C29_AllAttemptsFailed ==
    /\ Len(fwd.log) = MAX_FORWARD_ATTEMPTS
    /\ \A i \in DOMAIN fwd.log :
        /\ ~(fwd.log[i].kind = "response" /\ Is2xx(fwd.log[i].status))
        /\ ForwardAttempt(fwd.report, fwd.log[i]).result = None

\* what send_analysis_to_gmao was called with, once it was called
C29_Payload ==
    fwd.payload # None =>
        /\ fwd.payload[1].external_incident_id = fwd.original_external_incident_id
        /\ fwd.payload[1].mcp_tracking_id = fwd.tracking_id
        /\ fwd.result # None =>
                /\ fwd.callsite = "result"
                /\ fwd.payload[1] =
                        transform_to_gmao_format(fwd.result[1],
                            fwd.original_external_incident_id, fwd.tracking_id)
        /\ (fwd.result = None /\ env.INCIDENT_AGENT_URL) =>
                /\ fwd.payload[1].status = "error_agent_unavailable_or_invalid_response"
                /\ C29_AllAttemptsFailed

\* C29: every run of forward_incident_to_agent returns, and when it returns
\* it has called send_analysis_to_gmao exactly once: with the transformed
\* analysis when it holds an AnalysisResult (received or built by the MCP),
\* and with status 'error_agent_unavailable_or_invalid_response' when every
\* attempt has failed; the payload carries the external incident id of the
\* webhook and the tracking id of its 202 answer
C29_RunEndsWithOneCallback ==
    /\ (fwd.pc # "idle") ~> (fwd.pc = "done")
    /\ [](fwd.pc = "done" => fwd.payload # None)
    /\ []C29_Payload
    /\ [][C29_NoSecondSequence /\ C29_IdsHandedOn]_vars

\* the task of the second webhook has returned after three failed attempts and
\* a callback that GMAO accepted on its second attempt
C29_Witness ==
    /\ fwd.pc = "done"
    /\ fwd.tracking_id = 2
    /\ fwd.result = None
    /\ C29_AllAttemptsFailed
    /\ Len(fwd.cbLog) = 2
    /\ fwd.cbReturn = "True"

\* len(text)
C30_TextLen(text) ==
    LET sum[i \in 0..Len(text)] == IF i = 0 THEN 0 ELSE sum[i - 1] + text[i].n
    IN sum[Len(text)]

\* text a is the beginning of text b
C30_StartsWith(b, a) ==
    /\ Len(a) <= Len(b)
    /\ \A i \in DOMAIN a :
        /\ a[i].t = b[i].t
        /\ IF i < Len(a) THEN a[i].n = b[i].n ELSE a[i].n <= b[i].n

\* "Errors during analysis: " followed by the error texts
C30_ErrorTexts(errors) ==
    <<Piece("Errors during analysis: ", 24)>> \o JoinErrors(errors)

\* the payload made of an AnalysisResult by transform_to_gmao_format
C30_Transformed(f) ==
    LET payload == f.payload[1]
        errors == f.result[1].errors
    IN
    /\ payload.status = "analyzed" <=> errors = <<>>
    /\ payload.status # "analyzed" => payload.status = "error_in_analysis"
    /\ errors # <<>> =>
            /\ C30_TextLen(payload.analysis_summary) <= SUMMARY_LIMIT
            /\ \/ C30_StartsWith(payload.analysis_summary, C30_ErrorTexts(errors))
               \/ /\ C30_TextLen(payload.analysis_summary) = SUMMARY_LIMIT
                  /\ C30_StartsWith(C30_ErrorTexts(errors), payload.analysis_summary)
    /\ payload.status = "analyzed" => f.result[1].analysis_source \in {"llm", "cache"}

\* C30: the payload transform_to_gmao_format makes has status 'analyzed'
\* exactly when the result has no errors and 'error_in_analysis' otherwise;
\* with errors its summary begins with the error texts (as far as they fit)
\* and has at most 1000 characters; 'analyzed' is sent only for results of
\* source 'llm' or 'cache'
C30_StatusFollowsErrors ==
    (fwd.payload # None /\ fwd.callsite = "result") => C30_Transformed(fwd)

\* GMAO has accepted the payload made of an answer of the agent that the MCP
\* could not parse, whose summary was cut at the limit
C30_Witness ==
    /\ fwd.pc = "done"
    /\ fwd.cbReturn = "True"
    /\ fwd.callsite = "result"
    /\ fwd.result[1].analysis_source = "error_parsing_mcp"
    /\ fwd.payload[1].status = "error_in_analysis"
    /\ C30_TextLen(fwd.payload[1].analysis_summary) = SUMMARY_LIMIT

\* the GET of request i has just raised a Redis error: the request has left
\* the cache read and neither a hit nor a miss was counted
C31_ReadRaises(i) ==
    /\ i \in DOMAIN gens
    /\ gens[i].pc = "get"
    /\ gens'[i].pc # "get"
    /\ app_state' = app_state

C31_InferenceWithoutWrite(i) ==
    /\ gens'[i].inferences = 1
    /\ gens'[i].cache_status = "error"
    /\ gens'[i].pc = "done"
    /\ gens'[i].stored = "no"
    /\ redis' = redis
    /\ gens'[i].status_code = 200 =>
            /\ gens'[i].response_data # None
            /\ gens'[i].response_data[1].cache_status = "error"
            /\ gens'[i].response_data[1].text \in GeneratedTexts

\* the SETEX of request i has just raised a Redis error
C31_WriteRaises(i) ==
    /\ i \in DOMAIN gens
    /\ gens[i].pc = "setex"
    /\ gens'[i].stored = "failed"

C31_StillReturned(i) ==
    /\ redis' = redis
    /\ gens'[i].pc = "done"
    /\ gens'[i].status_code = 200
    /\ gens'[i].response_data = gens[i].response_data
    /\ gens'[i].response_data # None

\* what holds of every request that was answered
C31_Answered(g) ==
    /\ g.status_code \in {200, 500, 503}
    /\ g.status_code = 503 <=> ~app_state.model
    /\ g.status_code = 503 =>
            ~g.read /\ g.inferences = 0 /\ g.stored = "no" /\ g.response_data = None
    /\ g.status_code = 500 => g.inferences = 1 /\ g.response_data = None
    /\ g.cache_status = "error" => g.stored = "no"
    /\ (app_state.model /\ ~app_state.redis_client) =>
            /\ ~g.read
            /\ g.stored = "no"
            /\ g.inferences = 1
            /\ ~g.force_refresh => g.cache_status = "disabled"
            /\ g.force_refresh => g.cache_status = "bypass"

\* without a model nothing is counted and nothing is cached
C31_NoModel ==
    ~app_state.model =>
        /\ get_stats = [cache_hits |-> 0, cache_misses |-> 0]
        /\ \A k \in CacheKeys : redis[k] = None

\* C31: a Redis failure does not fail a /generate request. After a Redis error
\* of the cache read the request runs inference once, is answered with
\* cache_status 'error' and writes nothing to the cache; after a Redis error
\* of the cache write the response that was generated is returned; without a
\* Redis client the request runs inference with cache_status 'disabled'
\* ('bypass' under force_refresh); an answer 500 comes only from an inference
\* that raised; without a model the answer is 503, with no cache access and
\* no counter changed
C31_RedisFailureIsNotFatal ==
    /\ [][\A i \in 1..MaxGenerate :
            /\ C31_ReadRaises(i) => C31_InferenceWithoutWrite(i)
            /\ C31_WriteRaises(i) => C31_StillReturned(i)]_vars
    /\ [](C31_NoModel /\ \A i \in DOMAIN gens : gens[i].pc = "done" => C31_Answered(gens[i]))

\* one request was answered 200 with cache_status 'error' after its read
\* raised, another was answered 200 with its text after its write raised
C31_Witness ==
    \E i, j \in DOMAIN gens :
        /\ gens[i].cache_status = "error"
        /\ gens[i].status_code = 200
        /\ gens[i].stored = "no"
        /\ gens[j].stored = "failed"
        /\ gens[j].status_code = 200
        /\ gens[j].response_data # None


\* C32: once the agent is running after a startup registration that the MCP
\* stored and answered, and whose answer reached the agent, GET / of the agent
\* reports registered = true with the id the MCP created
C32_AcceptedRegistrationIsKept ==
    (/\ incident_agent.pc = "running"
     /\ incident_agent.created # None
     /\ incident_agent.delivered
     /\ incident_agent.created[1] \in DOMAIN agents)
    => read_root = [registered |-> TRUE, agent_id |-> incident_agent.created]

\* a step of the HTTP endpoints removes no registered id
C33_IdsOnlyGrow == DOMAIN agents \subseteq DOMAIN agents'

\* every registered agent is active
C33_AllActive == \A id \in DOMAIN agents : agents[id].status = "active"

\* C33: under the MCP's HTTP endpoints alone the set of registered ids only
\* grows and every registered agent is active in every reachable state,
\* whether its calls fail or its heartbeats never come
C33_HttpNeverRemovesOrDeactivates == [][C33_IdsOnlyGrow]_vars /\ []C33_AllActive

\* a routed call to a registered agent that never sent a heartbeat has returned
\* with that agent's error, and the agent is still registered and active
C33_Witness ==
    /\ route.phase = "returned"
    /\ \E id \in route.targets \cap DOMAIN agents :
            /\ route.result[id].data.status = "error"
            /\ agents[id].last_heartbeat = None
            /\ agents[id].status = "active"

====
